---- MODULE Spec2Model ----
(***************************************************************************)
(* Model of the staged import pipeline of Music_organizer:                 *)
(*                                                                         *)
(*   import_music.py   the orchestrator (MATCH -> AUDIO -> MERGE -> LOAD)  *)
(*   modules/match.py, modules/audio_analyze.py, modules/merge.py,         *)
(*   modules/load.py   the four stage programs it runs as subprocesses     *)
(*                                                                         *)
(* The file system (hidden sidecars next to each audio file) and the       *)
(* SQLite table `tracks` are the shared state.  A sidecar is abstracted to *)
(* the fields the pipeline decides on: whether it exists, the content hash *)
(* it carries in file.hash_sha256 (NoHash when the key is missing) and its *)
(* modification time.                                                      *)
(***************************************************************************)
EXTENDS Integers, Sequences, FiniteSets, TLC

\* ------------------------------------------------------------------------
\* Bounds of the model
\* ------------------------------------------------------------------------
NumTracks == 2      \* audio files of the collection
NumHashes == 2      \* distinct file contents
MaxTime   == 1      \* the wall clock runs 0..MaxTime

Tracks == 1..NumTracks
Hashes == 1..NumHashes
Times  == 0..MaxTime

\* safe_get_file_hash returns None when file.hash_sha256 is missing
NoHash == 0
DocHashes == Hashes \cup {NoHash}

\* ------------------------------------------------------------------------
\* Sidecar documents
\* ------------------------------------------------------------------------
\* a sidecar: whether the file exists, whether it parses as JSON, the
\* file.hash_sha256 it carries, its modification time, and whether it is a
\* match sidecar that records "no match" (unmatched_reason)
Absent ==
    [exists |-> FALSE, parses |-> FALSE, hash |-> NoHash, mtime |-> 0,
     unmatched |-> FALSE]
Doc(h, m) ==
    [exists |-> TRUE, parses |-> TRUE, hash |-> h, mtime |-> m,
     unmatched |-> FALSE]

\* open(path, "w") truncates the file before the document is written: a
\* write cut short leaves a file that exists and does not parse
Garbled(m) ==
    [exists |-> TRUE, parses |-> FALSE, hash |-> NoHash, mtime |-> m,
     unmatched |-> FALSE]

Docs == {Absent} \cup {Doc(h, 0) : h \in DocHashes}

STAGES == <<"MATCH", "AUDIO", "MERGE", "LOAD">>
StageNames == {"MATCH", "AUDIO", "MERGE", "LOAD"}

\* the stages that write a sidecar, those after MATCH, and the two ends
SidecarStages == {"MATCH", "AUDIO", "MERGE"}
StagesAfterMatch == {"AUDIO", "MERGE", "LOAD"}
MatchAndLoad == {"MATCH", "LOAD"}

VARIABLES
    content,             \* [Tracks -> Hashes]: the bytes of each audio file
    spotify_json,        \* [Tracks -> Doc]: /dir/.Track.spotify.json
    audio_json,          \* [Tracks -> Doc]: /dir/.Track.analysis.json
    final_json,          \* [Tracks -> Doc]: /dir/.Track.final.json
    now,                 \* time stamps of files and rows (getmtime / utcnow)
    db,                  \* rows of the table tracks
    audio_files,         \* main: the list the directory walk found
    args,                \* main: the parsed command line
    pc,                  \* where the orchestrator is
    idx,                 \* main: loop index into audio_files (1-based)
    tr,                  \* process_track: the TrackResult being built
    stats,               \* main: Stats
    spotify_call_count,  \* module global _spotify_call_count
    last_spotify_call,   \* module global _last_spotify_call
    clock,               \* time.time(), in ticks of half a second
    workers,             \* threads inside run_match: position and locals
    cols,                \* columns of the table tracks; {} when it is missing
    exit_code,           \* what main returned, NoExit while it runs
    hidden,              \* history: the sidecar paths computed for audio paths
    ran,                 \* history: stages run for the current track, in order
    raised,              \* history: the stage whose run_* raised, or "none"
    written,             \* history: <<track, stage>> sidecars written this run
    status,              \* history: the last stage program run on its own
    prev                 \* history: summary of the previous run, for reruns

vars == <<content, spotify_json, audio_json, final_json, now, db, audio_files,
          args, pc, idx, tr, stats, spotify_call_count, ran, raised, written,
          status, prev, last_spotify_call, clock, workers, cols,
          exit_code, hidden>>

diskVars == <<spotify_json, audio_json, final_json>>
orchVars == <<audio_files, args, pc, idx, tr, stats, spotify_call_count, ran,
              raised, written, prev>>

\* ------------------------------------------------------------------------
\* Helpers of import_music.py and utils/file_id.py
\* ------------------------------------------------------------------------
\* utils/file_id.py: the digest of the file's bytes
compute_file_hash(t) == content[t]

file_exists(d) == d.exists

\* True when a is newer than b; both must exist (OSError -> False)
newer_than(a, b) == a.exists /\ b.exists /\ a.mtime > b.mtime

\* ------------------------------------------------------------------------
\* modules/match.py
\* ------------------------------------------------------------------------
\* build_spotify_json: file.hash_sha256 is the hash of the audio file; the
\* document is written for a match and for an unmatched outcome alike
build_spotify_json(t) == Doc(compute_file_hash(t), now)

\* cmd_match returning without a sidecar when Spotify has no match
cmd_match_drops_unmatched(t, outcome) ==
    IF outcome = "unmatched" THEN spotify_json[t] ELSE build_spotify_json(t)

\* cmd_match when it ends well: the sidecar of the match found ("ok"), or,
\* when search_best_match returns None ("unmatched"), the sidecar built
\* with meta=None and an unmatched_reason
cmd_match(t, outcome) ==
    IF outcome = "unmatched"
    THEN [build_spotify_json(t) EXCEPT !.unmatched = TRUE]
    ELSE build_spotify_json(t)

\* match removing its sidecar when it fails
match_failed_unlinks(t, outcome) == Absent

\* cmd_match when it ends in an error: every SystemExit is raised before
\* the sidecar is opened ("fail": the sidecar is as it was), but an error
\* or a kill inside json.dump ("cut") comes after open("w")
match_failed(t, outcome) ==
    IF outcome = "cut" THEN Garbled(now) ELSE spotify_json[t]

\* ------------------------------------------------------------------------
\* modules/audio_analyze.py
\* ------------------------------------------------------------------------
\* AnalysisJSON / write_analysis_json: "file" is the file NAME (a string),
\* so the document has no file.hash_sha256
write_analysis_json(t) == Doc(NoHash, now)

\* main, one target: the exit code and the analysis sidecar afterwards.
\* outcome: "ok", "caught" (analyze_file raised; main prints and goes on),
\* "crash" (KeyboardInterrupt, failed import: exit code 1) or "cut" (the
\* process dies inside write_text)
analyze_main(t, overwrite, outcome) ==
    IF outcome = "crash"
    THEN [code |-> 1, doc |-> audio_json[t], wrote |-> FALSE]
    ELSE IF file_exists(audio_json[t]) /\ ~overwrite
    THEN [code |-> 0, doc |-> audio_json[t], wrote |-> FALSE]
    ELSE IF outcome = "cut"
    THEN [code |-> 1, doc |-> Garbled(now), wrote |-> FALSE]
    ELSE IF outcome = "caught"
    THEN [code |-> 0, doc |-> audio_json[t], wrote |-> FALSE]
    ELSE [code |-> 0, doc |-> write_analysis_json(t), wrote |-> TRUE]

\* ------------------------------------------------------------------------
\* modules/merge.py
\* ------------------------------------------------------------------------
safe_get_file_hash(d) == d.hash

\* HashMismatch with the comparison left out
HashMismatch_never(hash_spot, hash_audio) == FALSE

\* the refusal test of process_track
HashMismatch(hash_spot, hash_audio) ==
    hash_spot # NoHash /\ hash_audio # NoHash /\ hash_spot # hash_audio

\* build_final_json, the "file" block: the match document's fields first,
\* then the analysis document's fields the match document lacks
build_final_json(spotify, audio) ==
    Doc(IF spotify.hash # NoHash THEN spotify.hash ELSE audio.hash, now)

\* process_track: the status it returns
merge_status(t, force) ==
    IF file_exists(final_json[t]) /\ ~force THEN "skipped_final_exists"
    ELSE IF ~file_exists(audio_json[t]) THEN "missing_audio_json"
    ELSE IF ~file_exists(spotify_json[t]) THEN "missing_spotify_json"
    ELSE IF ~spotify_json[t].parses \/ ~audio_json[t].parses THEN "error"
    ELSE IF HashMismatch(safe_get_file_hash(spotify_json[t]),
                         safe_get_file_hash(audio_json[t]))
    THEN "hash_mismatch"
    ELSE "merged"

\* process_track: the final sidecar it leaves
merge_final(t, force, dry_run) ==
    IF merge_status(t, force) = "merged" /\ ~dry_run
    THEN build_final_json(spotify_json[t], audio_json[t])
    ELSE final_json[t]

\* main: the exit code for one audio file (every status ends in return 0)
merge_exit_code(st) == 0

\* modules.merge on one audio file: the status, the exit code and the final
\* sidecar afterwards. outcome: "ok"; "crash" (the process dies before it
\* writes: non-zero exit); "write_error" (open or json.dump raises: caught,
\* status error, exit 0) or "cut" (the process dies inside json.dump); the
\* last two happen only where the sidecar is opened for writing
merge_run(t, force, dry_run, outcome) ==
    LET st     == merge_status(t, force)
        writes == st = "merged" /\ ~dry_run IN
    CASE outcome = "ok" ->
            [status |-> st, code |-> merge_exit_code(st),
             doc |-> merge_final(t, force, dry_run), wrote |-> writes]
      [] outcome = "crash" \/ (outcome = "cut" /\ ~writes) ->
            [status |-> "none", code |-> 1, doc |-> final_json[t],
             wrote |-> FALSE]
      [] outcome = "cut" /\ writes ->
            [status |-> "none", code |-> 1, doc |-> Garbled(now),
             wrote |-> FALSE]
      [] outcome = "write_error" ->
            [status |-> IF writes THEN "error" ELSE st,
             code |-> merge_exit_code(IF writes THEN "error" ELSE st),
             doc |-> IF writes THEN Garbled(now) ELSE final_json[t],
             wrote |-> FALSE]

\* ------------------------------------------------------------------------
\* modules/load.py
\* ------------------------------------------------------------------------
\* _build_record: the row built from the final document of track t; the
\* columns kept are the two identity columns and final_path
build_record(t) ==
    [file_hash  |-> final_json[t].hash,
     file_path  |-> t,
     final_path |-> t]

\* _infer_file_path returns None
NoPath == 0

\* _build_record, its upsert key: SystemExit when the table has a
\* file_hash column and the document no hash, or a file_path column and no
\* path can be inferred; then the key is the hash, else the path, else
\* SystemExit
build_record_key(colset, file_hash, file_path) ==
    IF "file_hash" \in colset /\ file_hash = NoHash
    THEN [code |-> 1, key |-> "none", error |-> "no file_hash"]
    ELSE IF "file_path" \in colset /\ file_path = NoPath
    THEN [code |-> 1, key |-> "none", error |-> "no file_path"]
    ELSE IF "file_hash" \in colset /\ file_hash # NoHash
    THEN [code |-> 0, key |-> "file_hash", error |-> "none"]
    ELSE IF "file_path" \in colset /\ file_path # NoPath
    THEN [code |-> 0, key |-> "file_path", error |-> "none"]
    ELSE [code |-> 1, key |-> "none", error |-> "no upsert key"]

\* main up to _upsert_track: the final sidecar loads as JSON, the database
\* file exists and has a table tracks, and _build_record finds a key
record_ok(t) ==
    /\ file_exists(final_json[t])
    /\ final_json[t].parses
    /\ cols # {}
    /\ build_record_key(cols, final_json[t].hash, t).code = 0

\* _upsert_track, the INSERT branch
InsertedRow(data) ==
    [file_hash  |-> data.file_hash,
     file_path  |-> data.file_path,
     final_path |-> data.final_path,
     added_at   |-> now,
     updated_at |-> now]

\* UpdatedRow without `d.pop("added_at")`: the update rewrites added_at
UpdatedRow_new_added_at(old, data) ==
    [old EXCEPT !.file_path  = data.file_path,
                !.final_path = data.final_path,
                !.added_at   = now,
                !.updated_at = now]

\* _upsert_track, the UPDATE branch: added_at and the key are popped
UpdatedRow(old, data) ==
    [old EXCEPT !.file_path  = data.file_path,
                !.final_path = data.final_path,
                !.updated_at = now]

\* SCHEMA_SQL: file_path and file_hash are UNIQUE
Unique(rows) ==
    \A r1, r2 \in rows :
        (r1.file_path = r2.file_path \/ r1.file_hash = r2.file_hash) => r1 = r2

\* _upsert_track: the result and the table afterwards; a UNIQUE violation
\* raises sqlite3.IntegrityError and nothing is committed
upsert_track(data, dry) ==
    LET found == {r \in db : r.file_hash = data.file_hash} IN
    IF found = {}
    THEN LET rows == db \cup {InsertedRow(data)} IN
         IF dry THEN [code |-> 0, res |-> "dry-run insert", rows |-> db]
         ELSE IF Unique(rows) THEN [code |-> 0, res |-> "inserted", rows |-> rows]
         ELSE [code |-> 1, res |-> "IntegrityError", rows |-> db]
    ELSE LET old  == CHOOSE r \in found : TRUE
             rows == (db \ {old}) \cup {UpdatedRow(old, data)} IN
         IF dry THEN [code |-> 0, res |-> "dry-run update", rows |-> db]
         ELSE IF Unique(rows) THEN [code |-> 0, res |-> "updated", rows |-> rows]
         ELSE [code |-> 1, res |-> "IntegrityError", rows |-> db]

\* main: the exit code and the table afterwards for --path <audio file>
load_main(t, dry) ==
    IF ~record_ok(t)
    THEN [code |-> 1, res |-> "SystemExit", rows |-> db]
    ELSE upsert_track(build_record(t), dry)

\* ------------------------------------------------------------------------
\* import_music.py: the orchestrator
\* ------------------------------------------------------------------------
FlagNames == {"force_match", "force_audio", "force_merge", "skip_match",
              "skip_audio", "skip_merge", "skip_load", "dry_run"}

\* args.max_tracks is None (the default): no cap
NoMax == -1

\* the command lines without --max-tracks, and the one without any flag
AllArgs == {f @@ ("max_tracks" :> NoMax) : f \in [FlagNames -> BOOLEAN]}
NoFlags == [f \in FlagNames |-> FALSE] @@ ("max_tracks" :> NoMax)

\* TrackResult(path=audio_path)
\* main has not returned
NoExit == 0 - 1

\* main with a non-zero return when a track failed
main_return_failures(st) == IF st.failed > 0 THEN 1 ELSE 0

\* main: `return 0` after the summary, whatever the counters
main_return(st) == 0

\* db_creator.SCHEMA_SQL: the columns of tracks the loader's key can use
SCHEMA_SQL == {"id", "file_path", "file_hash"}

TrackResult ==
    [matched |-> FALSE, analyzed |-> FALSE, merged |-> FALSE,
     loaded |-> FALSE, failed_stage |-> "none", error |-> "none"]

\* Stats()
Stats ==
    [total |-> 0, matched |-> 0, analyzed |-> 0, merged |-> 0, loaded |-> 0,
     failed |-> 0, spotify_calls |-> 0]

\* the per-stage counters of Stats, and all the counters the loop updates
StatNames == {"matched", "analyzed", "merged", "loaded", "failed"}
LoopStatNames == {"total", "matched", "analyzed", "merged", "loaded", "failed"}

\* update_from_track counting a failure for every track
update_from_track_all_failed(st, r) ==
    [st EXCEPT !.total    = @ + 1,
               !.matched  = @ + (IF r.matched THEN 1 ELSE 0),
               !.analyzed = @ + (IF r.analyzed THEN 1 ELSE 0),
               !.merged   = @ + (IF r.merged THEN 1 ELSE 0),
               !.loaded   = @ + (IF r.loaded THEN 1 ELSE 0),
               !.failed   = @ + 1]

\* update_from_track without the `if tr.loaded` line
update_from_track_no_loaded(st, r) ==
    [st EXCEPT !.total    = @ + 1,
               !.matched  = @ + (IF r.matched THEN 1 ELSE 0),
               !.analyzed = @ + (IF r.analyzed THEN 1 ELSE 0),
               !.merged   = @ + (IF r.merged THEN 1 ELSE 0),
               !.failed   = @ + (IF r.failed_stage # "none" THEN 1 ELSE 0)]

\* Stats.update_from_track
update_from_track(st, r) ==
    [st EXCEPT !.total    = @ + 1,
               !.matched  = @ + (IF r.matched THEN 1 ELSE 0),
               !.analyzed = @ + (IF r.analyzed THEN 1 ELSE 0),
               !.merged   = @ + (IF r.merged THEN 1 ELSE 0),
               !.loaded   = @ + (IF r.loaded THEN 1 ELSE 0),
               !.failed   = @ + (IF r.failed_stage # "none" THEN 1 ELSE 0)]

\* NextStage with the MERGE and AUDIO blocks in the wrong order
NextStage_merge_first(stage) ==
    CASE stage = "MATCH" -> "MERGE"
      [] stage = "MERGE" -> "AUDIO"
      [] stage = "AUDIO" -> "LOAD"
      [] stage = "LOAD"  -> "ret"

\* process_track: the block that follows each stage's try block
NextStage(stage) ==
    CASE stage = "MATCH" -> "AUDIO"
      [] stage = "AUDIO" -> "MERGE"
      [] stage = "MERGE" -> "LOAD"
      [] stage = "LOAD"  -> "ret"

\* OnError without the `return tr`: the next block runs
OnError_fall_through(stage) ==
    CASE stage = "MATCH" -> "AUDIO"
      [] stage = "AUDIO" -> "MERGE"
      [] stage = "MERGE" -> "LOAD"
      [] stage = "LOAD"  -> "ret"

\* process_track: every except block ends in `return tr`
OnError(stage) == "ret"

\* need_match without the test for an existing match sidecar
need_match_always(t) == TRUE

\* skip_flag where a --force-* flag overrides the --skip-* flag
skip_flag_unless_forced(stage) ==
    CASE stage = "MATCH" -> args.skip_match /\ ~args.force_match
      [] stage = "AUDIO" -> args.skip_audio /\ ~args.force_audio
      [] stage = "MERGE" -> args.skip_merge /\ ~args.force_merge
      [] stage = "LOAD"  -> args.skip_load

\* process_track: the `if not skip_<stage>` test that opens each block
skip_flag(stage) ==
    CASE stage = "MATCH" -> args.skip_match
      [] stage = "AUDIO" -> args.skip_audio
      [] stage = "MERGE" -> args.skip_merge
      [] stage = "LOAD"  -> args.skip_load

\* process_track: need_match
need_match(t) == args.force_match \/ ~file_exists(spotify_json[t])

\* need_audio without the force flag
need_audio_unforced(t) == ~file_exists(audio_json[t])

\* process_track: need_audio
need_audio(t) == args.force_audio \/ ~file_exists(audio_json[t])

\* process_track: need_merge
need_merge(t) == args.force_merge \/ ~file_exists(final_json[t])

\* the LOAD block without its `if file_exists(final_json)` test
need_load_always(t) == TRUE

\* process_track: the LOAD block runs run_load when the final sidecar exists
need_load(t) == file_exists(final_json[t])

\* the except block of a stage
Fail(stage) ==
    /\ tr' = [tr EXCEPT !.failed_stage = stage, !.error = "msg"]
    /\ raised' = stage
    /\ pc' = OnError(stage)

cur == audio_files[idx]

\* run_* without the `if dry_run: return False` they begin with
DryRun_ignored == FALSE

\* the dry_run argument main passes to process_track and on to every run_*
DryRun == args.dry_run

\* MIN_SPOTIFY_INTERVAL = 1.0 second, in clock ticks of half a second
MIN_SPOTIFY_INTERVAL == 2

\* time.time() when the process starts: far more than the interval after
\* the epoch, the initial value 0.0 of _last_spotify_call
StartTime == MIN_SPOTIFY_INTERVAL

\* _throttle_spotify_if_needed without the sleep
throttle_no_sleep(late) == clock

\* _throttle_spotify_if_needed: the time it returns at, which it stores in
\* _last_spotify_call; time.sleep may return `late` ticks after its term
throttle_spotify_if_needed(late) ==
    LET delta == clock - last_spotify_call IN
    IF delta < MIN_SPOTIFY_INTERVAL
    THEN clock + (MIN_SPOTIFY_INTERVAL - delta) + late
    ELSE clock

\* 1) MATCH: run_match runs modules.match as a subprocess (check=True) and
\* counts the call in its finally block
MatchStage(O, Late) ==
    /\ pc = "MATCH"
    /\ UNCHANGED <<workers, cols, hidden, exit_code>>
    /\ UNCHANGED <<content, audio_json, final_json, now, db, audio_files, args,
                   idx, stats, status, prev>>
    /\ IF skip_flag("MATCH") \/ ~need_match(cur)
       THEN /\ pc' = NextStage("MATCH")
            /\ UNCHANGED <<spotify_json, tr, spotify_call_count, ran, raised,
                           written, last_spotify_call, clock>>
       ELSE IF DryRun
       THEN /\ tr' = [tr EXCEPT !.matched = FALSE]
            /\ pc' = NextStage("MATCH")
            /\ UNCHANGED <<spotify_json, spotify_call_count, ran, raised,
                           written, last_spotify_call, clock>>
       ELSE /\ ran' = Append(ran, "MATCH")
            /\ \E late \in Late : clock' = throttle_spotify_if_needed(late)
            /\ last_spotify_call' = clock'
            /\ spotify_call_count' = spotify_call_count + 1
            /\ \E outcome \in O :
                 IF outcome = "ok" \/ outcome = "unmatched"
                 THEN /\ spotify_json' =
                            [spotify_json EXCEPT ![cur] = cmd_match(cur, outcome)]
                      /\ written' = written \cup {<<cur, "MATCH">>}
                      /\ tr' = [tr EXCEPT !.matched = TRUE]
                      /\ pc' = NextStage("MATCH")
                      /\ UNCHANGED raised
                 ELSE /\ Fail("MATCH")
                      /\ spotify_json' =
                            [spotify_json EXCEPT ![cur] = match_failed(cur, outcome)]
                      /\ UNCHANGED written

\* no write is cut short, and time.sleep returns on time
MatchOutcomes == {"ok", "fail"}
StageMatch == MatchStage(MatchOutcomes, {0})

\* 2) AUDIO ANALYZE: run_audio_analyze runs modules.audio_analyze --path
\* (no --overwrite) and raises on a non-zero exit code
AudioStage(O) ==
    /\ pc = "AUDIO"
    /\ UNCHANGED <<last_spotify_call, clock, workers, cols, hidden, exit_code>>
    /\ UNCHANGED <<content, spotify_json, final_json, now, db, audio_files,
                   args, idx, stats, spotify_call_count, status, prev>>
    /\ IF skip_flag("AUDIO") \/ ~need_audio(cur)
       THEN /\ pc' = NextStage("AUDIO")
            /\ UNCHANGED <<audio_json, tr, ran, raised, written>>
       ELSE IF DryRun
       THEN /\ tr' = [tr EXCEPT !.analyzed = FALSE]
            /\ pc' = NextStage("AUDIO")
            /\ UNCHANGED <<audio_json, ran, raised, written>>
       ELSE /\ ran' = Append(ran, "AUDIO")
            /\ \E outcome \in O :
                 LET r == analyze_main(cur, FALSE, outcome) IN
                 /\ audio_json' = [audio_json EXCEPT ![cur] = r.doc]
                 /\ IF r.code = 0
                    THEN /\ written' = IF r.wrote
                                       THEN written \cup {<<cur, "AUDIO">>}
                                       ELSE written
                         /\ tr' = [tr EXCEPT !.analyzed = TRUE]
                         /\ pc' = NextStage("AUDIO")
                         /\ UNCHANGED raised
                    ELSE /\ Fail("AUDIO")
                         /\ UNCHANGED written

\* no write is cut short
AudioOutcomes == {"ok", "caught", "crash"}
StageAudio == AudioStage(AudioOutcomes)

\* 3) MERGE: run_merge runs modules.merge --path (no --force) and raises on
\* a non-zero exit code
MergeStage(O) ==
    /\ pc = "MERGE"
    /\ UNCHANGED <<last_spotify_call, clock, workers, cols, hidden, exit_code>>
    /\ UNCHANGED <<content, spotify_json, audio_json, now, db, audio_files,
                   args, idx, stats, spotify_call_count, status, prev>>
    /\ IF skip_flag("MERGE") \/ ~need_merge(cur)
       THEN /\ pc' = NextStage("MERGE")
            /\ UNCHANGED <<final_json, tr, ran, raised, written>>
       ELSE IF DryRun
       THEN /\ tr' = [tr EXCEPT !.merged = FALSE]
            /\ pc' = NextStage("MERGE")
            /\ UNCHANGED <<final_json, ran, raised, written>>
       ELSE /\ ran' = Append(ran, "MERGE")
            /\ \E outcome \in O :
                 LET r == merge_run(cur, FALSE, FALSE, outcome) IN
                 /\ final_json' = [final_json EXCEPT ![cur] = r.doc]
                 /\ IF r.code = 0
                    THEN /\ written' = IF r.wrote
                                       THEN written \cup {<<cur, "MERGE">>}
                                       ELSE written
                         /\ tr' = [tr EXCEPT !.merged = TRUE]
                         /\ pc' = NextStage("MERGE")
                         /\ UNCHANGED raised
                    ELSE /\ Fail("MERGE")
                         /\ UNCHANGED written

\* no write fails or is cut short
MergeOutcomes == {"ok", "crash"}
StageMerge == MergeStage(MergeOutcomes)

\* 4) LOAD: run_load runs modules.load --path <audio file> when the final
\* sidecar exists, and raises on a non-zero exit code
StageLoad ==
    /\ pc = "LOAD"
    /\ UNCHANGED <<last_spotify_call, clock, workers, cols, hidden, exit_code>>
    /\ UNCHANGED <<content, spotify_json, audio_json, final_json, now,
                   audio_files, args, idx, stats, spotify_call_count, written,
                   status, prev>>
    /\ IF skip_flag("LOAD") \/ ~need_load(cur)
       THEN /\ pc' = NextStage("LOAD")
            /\ UNCHANGED <<db, tr, ran, raised>>
       ELSE IF DryRun
       THEN /\ tr' = [tr EXCEPT !.loaded = FALSE]
            /\ pc' = NextStage("LOAD")
            /\ UNCHANGED <<db, ran, raised>>
       ELSE /\ ran' = Append(ran, "LOAD")
            /\ \E crash \in BOOLEAN :
                 LET r    == load_main(cur, FALSE)
                     code == IF crash THEN 1 ELSE r.code IN
                 IF code = 0
                 THEN /\ db' = r.rows
                      /\ tr' = [tr EXCEPT !.loaded = TRUE]
                      /\ pc' = NextStage("LOAD")
                      /\ UNCHANGED raised
                 ELSE /\ Fail("LOAD")
                      /\ UNCHANGED db

\* LoopHead with `idx >= max_tracks`: the cap reached one track early
\* LoopHead without the max-tracks break
LoopHead_no_cap(i, a) ==
    IF i > Len(audio_files) THEN "summary" ELSE "MATCH"

LoopHead_cap_early(i, a) ==
    IF i > Len(audio_files) THEN "summary"
    ELSE IF a.max_tracks # NoMax /\ i >= a.max_tracks THEN "summary"
    ELSE "MATCH"

\* main: the head of the track loop for the i-th file under command line
\* a: the loop ends after the last file, or breaks when i > max_tracks
LoopHead(i, a) ==
    IF i > Len(audio_files) THEN "summary"
    ELSE IF a.max_tracks # NoMax /\ i > a.max_tracks THEN "summary"
    ELSE "MATCH"

\* main, from parse_args (command lines drawn from A) to the first
\* iteration of the track loop
Start(A) ==
    /\ pc = "start"
    /\ \E a \in A : args' = a /\ pc' = LoopHead(1, a)
    /\ stats' = Stats
    /\ idx' = 1
    /\ tr' = TrackResult
    /\ ran' = <<>>
    /\ raised' = "none"
    /\ UNCHANGED <<last_spotify_call, clock, workers, cols, hidden, exit_code>>
    /\ UNCHANGED <<content, diskVars, now, db, audio_files, spotify_call_count,
                   written, status, prev>>

StartRun == Start(AllArgs)

\* main: process_track returned; stats.update_from_track, then the next
\* iteration of the loop
UpdateStats ==
    /\ pc = "ret"
    /\ stats' = update_from_track(stats, tr)
    /\ idx' = idx + 1
    /\ IF LoopHead(idx + 1, args) = "MATCH"
       THEN /\ pc' = "MATCH"
            /\ tr' = TrackResult
            /\ ran' = <<>>
            /\ raised' = "none"
       ELSE /\ pc' = "summary"
            /\ UNCHANGED <<tr, ran, raised>>
    /\ UNCHANGED <<last_spotify_call, clock, workers, cols, hidden, exit_code>>
    /\ UNCHANGED <<content, diskVars, now, db, audio_files, args,
                   spotify_call_count, written, status, prev>>

\* main: the summary; return 0
Summary ==
    /\ pc = "summary"
    /\ stats' = [stats EXCEPT !.spotify_calls = spotify_call_count]
    /\ pc' = "done"
    /\ exit_code' = main_return(stats')
    /\ UNCHANGED <<last_spotify_call, clock, workers, cols, hidden>>
    /\ UNCHANGED <<content, diskVars, now, db, audio_files, args, idx, tr,
                   spotify_call_count, ran, raised, written, status, prev>>

\* the wall clock advances
Tick ==
    /\ now < MaxTime
    /\ now' = now + 1
    /\ UNCHANGED <<last_spotify_call, clock, workers, cols, hidden, exit_code>>
    /\ UNCHANGED <<content, diskVars, db, orchVars, status>>

\* the last stage program run on its own: its arguments and result, the
\* time it ran at, and the final sidecar and the table it found; none yet
NoStatus ==
    [prog |-> "none", t |-> 1, force |-> FALSE, dry_run |-> FALSE,
     res |-> "none", before |-> Absent, rows |-> {}, at |-> 0]

\* threads that would call run_match at the same time
NumWorkers == 2
Workers == 1..NumWorkers

\* a thread that has not entered run_match: its position, the locals now
\* and delta of the throttle, the value it loaded for the counter's +=, the
\* time its sleep ends and the time of its external call
Idle ==
    [pc |-> "idle", now |-> 0, delta |-> 0, count |-> 0, wake |-> 0,
     called_at |-> 0]

NoPrev ==
    [valid |-> FALSE, args |-> NoFlags, stats |-> Stats, rows |-> 0,
     tr |-> TrackResult]

\* the process has not started: nothing parsed, counted or returned
InitProcess ==
    /\ args = NoFlags
    /\ pc = "start"
    /\ idx = 1
    /\ tr = TrackResult
    /\ stats = Stats
    /\ spotify_call_count = 0
    /\ ran = <<>>
    /\ raised = "none"
    /\ written = {}
    /\ status = NoStatus
    /\ prev = NoPrev
    /\ last_spotify_call = 0
    /\ clock = StartTime
    /\ workers = [w \in Workers |-> Idle]
    /\ exit_code = NoExit
    /\ hidden = {}

\* what every specification of the pipeline starts from: the orchestrator
\* not yet started, the database created by db_creator
InitOrch ==
    /\ InitProcess
    /\ cols = SCHEMA_SQL

\* the contents of the collection: every file the same bytes, or the files
\* cycling through the distinct contents
Contents ==
    {[t \in Tracks |-> 1], [t \in Tracks |-> ((t - 1) % NumHashes) + 1]}

\* a content other than h
Other(h) == (h % NumHashes) + 1

\* the sidecars one track can start with: a match sidecar of the file as it
\* is; an analysis or final sidecar with no hash, the file's hash or another
InitDocs(h) == {Absent, Doc(NoHash, 0), Doc(h, 0), Doc(Other(h), 0)}

\* the disk: one track (t0) has the sidecars s, a, f; the others have none
DiskIs(t0, s, a, f) ==
    /\ spotify_json = [t \in Tracks |-> IF t = t0 THEN s ELSE Absent]
    /\ audio_json   = [t \in Tracks |-> IF t = t0 THEN a ELSE Absent]
    /\ final_json   = [t \in Tracks |-> IF t = t0 THEN f ELSE Absent]

\* One run of import_music.main over a collection of NumTracks files, one of
\* which has sidecars in any state an earlier run or another tool left
InitDisk ==
    /\ content \in Contents
    /\ \E t0 \in Tracks :
         \E s \in {Absent, Doc(content[t0], 0)},
            a \in InitDocs(content[t0]), f \in InitDocs(content[t0]) :
                DiskIs(t0, s, a, f)
    /\ now = 0
    /\ db = {}
    /\ audio_files = [i \in 1..NumTracks |-> i]

Init ==
    /\ InitDisk
    /\ InitOrch

Next ==
    \/ StartRun
    \/ StageMatch
    \/ StageAudio
    \/ StageMerge
    \/ StageLoad
    \/ UpdateStats
    \/ Summary

Spec == Init /\ [][Next]_vars

\* One run of import_music.main over a collection of one file while the
\* clock advances, so that sidecars written during the run can be newer than
\* the ones found
InitTrack ==
    /\ content = [t \in Tracks |-> 1]
    /\ \E s \in {Absent, Doc(1, 0)}, a \in InitDocs(1), f \in InitDocs(1) :
          DiskIs(1, s, a, f)
    /\ now = 0
    /\ db = {}
    /\ audio_files = <<1>>
    /\ InitOrch

NextTrack ==
    \/ Next
    \/ Tick

SpecTrack == InitTrack /\ [][NextTrack]_vars

\* command lines without a --force-* flag
PlainArgs == {a \in AllArgs : ~a.force_match /\ ~a.force_audio /\ ~a.force_merge}

StartPlain == Start(PlainArgs)

\* the same command line is run again once the first run has returned: a new
\* process (the call counter starts at 0) over the disk and the table the
\* first run left
Rerun ==
    /\ pc = "done"
    /\ ~prev.valid
    /\ prev' = [valid |-> TRUE, args |-> args, stats |-> stats,
                rows |-> Cardinality(db), tr |-> TrackResult]
    /\ spotify_call_count' = 0
    /\ stats' = Stats
    /\ idx' = 1
    /\ tr' = TrackResult
    /\ ran' = <<>>
    /\ raised' = "none"
    /\ pc' = LoopHead(1, args)
    /\ last_spotify_call' = 0
    /\ exit_code' = NoExit
    /\ UNCHANGED <<clock, workers, cols, hidden>>
    /\ UNCHANGED <<content, diskVars, now, db, audio_files, args, written,
                   status>>

\* import_music.main run twice in a row with the same command line, no
\* --force-* flag and no change to the audio files in between
NextRerun ==
    \/ StartPlain
    \/ StageMatch
    \/ StageAudio
    \/ StageMerge
    \/ StageLoad
    \/ UpdateStats
    \/ Summary
    \/ Rerun

SpecRerun == Init /\ [][NextRerun]_vars

\* One run of import_music.main over a collection of three files of
\* distinct contents: the first has its three sidecars and its row in the
\* tracks table, the second has a match sidecar only, the third has nothing
ScenarioTracks == 1..3

InitScenario ==
    /\ content = [t \in ScenarioTracks |-> t]
    /\ spotify_json = [t \in ScenarioTracks |->
                          IF t <= 2 THEN Doc(t, 0) ELSE Absent]
    /\ \E a \in {Doc(NoHash, 0), Doc(1, 0)} :
          audio_json = [t \in ScenarioTracks |-> IF t = 1 THEN a ELSE Absent]
    /\ final_json = [t \in ScenarioTracks |->
                        IF t = 1 THEN Doc(1, 0) ELSE Absent]
    /\ now = 0
    /\ db = {[file_hash |-> 1, file_path |-> 1, final_path |-> 1,
              added_at |-> 0, updated_at |-> 0]}
    /\ audio_files = [i \in ScenarioTracks |-> i]
    /\ InitOrch

SpecScenario == InitScenario /\ [][Next]_vars

\* command lines with --max-tracks and no --force-* flag
CapArgs ==
    {[a EXCEPT !.max_tracks = m] : a \in PlainArgs, m \in 0..NumTracks}
        \cup PlainArgs

StartCap == Start(CapArgs)

\* main: KeyboardInterrupt while process_track runs; the loop is left
\* without counting the track
Interrupt ==
    /\ pc \in StageNames
    /\ raised' = "INTERRUPT"
    /\ pc' = "summary"
    /\ UNCHANGED <<last_spotify_call, clock, workers, cols, hidden, exit_code>>
    /\ UNCHANGED <<content, diskVars, now, db, audio_files, args, idx, tr,
                   stats, spotify_call_count, ran, written, status, prev>>

\* One run of import_music.main with any --max-tracks, which the user may
\* interrupt
NextCap ==
    \/ StartCap
    \/ StageMatch
    \/ StageAudio
    \/ StageMerge
    \/ StageLoad
    \/ UpdateStats
    \/ Summary
    \/ Interrupt

SpecCap == Init /\ [][NextCap]_vars

\* the stage subprocesses may also die, or fail, while they write their
\* sidecar
MatchCutOutcomes == {"ok", "fail", "cut"}
AudioCutOutcomes == {"ok", "caught", "crash", "cut"}
MergeCutOutcomes == {"ok", "crash", "write_error", "cut"}
MatchOrCut == MatchStage(MatchCutOutcomes, {0})
AudioOrCut == AudioStage(AudioCutOutcomes)
MergeOrCut == MergeStage(MergeCutOutcomes)

\* import_music is run a second time, with a command line that has no
\* --force-* flag, over the disk and the table the first run left
Retry ==
    /\ pc = "done"
    /\ ~prev.valid
    /\ prev' = [valid |-> TRUE, args |-> args, stats |-> stats,
                rows |-> Cardinality(db), tr |-> tr]
    /\ \E a \in PlainArgs : args' = a /\ pc' = LoopHead(1, a)
    /\ spotify_call_count' = 0
    /\ stats' = Stats
    /\ idx' = 1
    /\ tr' = TrackResult
    /\ ran' = <<>>
    /\ raised' = "none"
    /\ last_spotify_call' = 0
    /\ exit_code' = NoExit
    /\ UNCHANGED <<clock, workers, cols, hidden>>
    /\ UNCHANGED <<content, diskVars, now, db, audio_files, written, status>>

\* Two runs of import_music.main over a collection of one file, both
\* without --force-* flags; stage subprocesses can fail at any point
NextRetry ==
    \/ StartPlain
    \/ MatchOrCut
    \/ AudioOrCut
    \/ MergeOrCut
    \/ StageLoad
    \/ UpdateStats
    \/ Summary
    \/ Retry

SpecRetry == InitTrack /\ [][NextRetry]_vars

\* ------------------------------------------------------------------------
\* The Spotify throttle
\* ------------------------------------------------------------------------
MaxClock == 5       \* the clock ticks on its own up to MaxClock
MaxLate == 1        \* time.sleep returns up to MaxLate ticks late

\* time passes between any two steps of the orchestrator
ClockTick ==
    /\ clock < MaxClock
    /\ clock' = clock + 1
    /\ UNCHANGED <<content, diskVars, now, db, orchVars, status,
                   last_spotify_call, workers, cols, hidden, exit_code>>

\* time.sleep suspends for at least the time asked for
MatchTimed == MatchStage(MatchOutcomes, 0..MaxLate)

\* the command lines of the throttle's cases: MATCH run, forced, skipped or
\* dry, the later stages skipped or not
ThrottleArgs ==
    {a \in AllArgs : /\ ~a.force_audio /\ ~a.force_merge
                     /\ a.skip_audio = a.skip_merge
                     /\ a.skip_merge = a.skip_load}

StartThrottle == Start(ThrottleArgs)

\* one run of import_music.main while the clock runs
NextThrottle ==
    \/ StartThrottle
    \/ MatchTimed
    \/ StageAudio
    \/ StageMerge
    \/ StageLoad
    \/ UpdateStats
    \/ Summary
    \/ ClockTick

\* a collection in which one track may have its match sidecar already
InitThrottle ==
    /\ content \in Contents
    /\ \E t0 \in Tracks : \E s \in {Absent, Doc(content[t0], 0)} :
          DiskIs(t0, s, Absent, Absent)
    /\ now = 0
    /\ db = {}
    /\ audio_files = [i \in 1..NumTracks |-> i]
    /\ InitOrch

SpecThrottle == InitThrottle /\ [][NextThrottle]_vars

\* what the threads inside run_match do not touch
restVars == <<content, diskVars, now, db, audio_files, args, pc, idx, tr,
              stats, ran, raised, written, status, prev, cols, hidden, exit_code>>

\* a thread enters run_match (not a dry run) and _throttle_spotify_if_needed
\* reads the clock: now = time.time()
WorkerNow(w) ==
    /\ workers[w].pc = "idle"
    /\ workers' = [workers EXCEPT ![w].pc = "delta", ![w].now = clock]
    /\ UNCHANGED <<clock, last_spotify_call, spotify_call_count, restVars>>

\* delta = now - _last_spotify_call
WorkerDelta(w) ==
    /\ workers[w].pc = "delta"
    /\ LET delta == workers[w].now - last_spotify_call IN
       workers' = [workers EXCEPT
                     ![w].delta = delta,
                     ![w].pc = IF delta < MIN_SPOTIFY_INTERVAL
                               THEN "sleep" ELSE "record"]
    /\ UNCHANGED <<clock, last_spotify_call, spotify_call_count, restVars>>

\* time.sleep(MIN_SPOTIFY_INTERVAL - delta) begins
WorkerSleep(w) ==
    /\ workers[w].pc = "sleep"
    /\ workers' = [workers EXCEPT
                     ![w].pc = "asleep",
                     ![w].wake = clock + (MIN_SPOTIFY_INTERVAL - workers[w].delta)]
    /\ UNCHANGED <<clock, last_spotify_call, spotify_call_count, restVars>>

\* time.sleep returns, not before its term
WorkerWake(w) ==
    /\ workers[w].pc = "asleep"
    /\ clock >= workers[w].wake
    /\ workers' = [workers EXCEPT ![w].pc = "record"]
    /\ UNCHANGED <<clock, last_spotify_call, spotify_call_count, restVars>>

\* _last_spotify_call = time.time()
WorkerRecord(w) ==
    /\ workers[w].pc = "record"
    /\ last_spotify_call' = clock
    /\ workers' = [workers EXCEPT ![w].pc = "call"]
    /\ UNCHANGED <<clock, spotify_call_count, restVars>>

\* the external call: match_track or the modules.match subprocess starts
WorkerCall(w) ==
    /\ workers[w].pc = "call"
    /\ workers' = [workers EXCEPT ![w].pc = "load", ![w].called_at = clock]
    /\ UNCHANGED <<clock, last_spotify_call, spotify_call_count, restVars>>

\* finally: _spotify_call_count += 1 loads the global ...
WorkerLoad(w) ==
    /\ workers[w].pc = "load"
    /\ workers' = [workers EXCEPT ![w].pc = "store",
                                  ![w].count = spotify_call_count]
    /\ UNCHANGED <<clock, last_spotify_call, spotify_call_count, restVars>>

\* ... and stores the sum
WorkerStore(w) ==
    /\ workers[w].pc = "store"
    /\ spotify_call_count' = workers[w].count + 1
    /\ workers' = [workers EXCEPT ![w].pc = "done"]
    /\ UNCHANGED <<clock, last_spotify_call, restVars>>

\* time passes while the threads run
WorkerTick ==
    /\ clock < MaxClock
    /\ clock' = clock + 1
    /\ UNCHANGED <<workers, last_spotify_call, spotify_call_count, restVars>>

\* a collection without sidecars; no thread has entered run_match
InitWorkers ==
    /\ content = [t \in Tracks |-> 1]
    /\ DiskIs(1, Absent, Absent, Absent)
    /\ now = 0
    /\ db = {}
    /\ audio_files = [i \in 1..NumTracks |-> i]
    /\ InitOrch

\* run_match called from NumWorkers threads of one process; nothing in
\* _throttle_spotify_if_needed or run_match takes a lock
NextWorkers ==
    \/ \E w \in Workers : WorkerNow(w)
    \/ \E w \in Workers : WorkerDelta(w)
    \/ \E w \in Workers : WorkerSleep(w)
    \/ \E w \in Workers : WorkerWake(w)
    \/ \E w \in Workers : WorkerRecord(w)
    \/ \E w \in Workers : WorkerCall(w)
    \/ \E w \in Workers : WorkerLoad(w)
    \/ \E w \in Workers : WorkerStore(w)
    \/ WorkerTick

SpecWorkers == InitWorkers /\ [][NextWorkers]_vars

\* ------------------------------------------------------------------------
\* Any --max-tracks
\* ------------------------------------------------------------------------
\* --max-tracks is type=int: negative, zero, within the collection or larger
\* than it (NoMax stands for None, so -1 itself is left out)
MinMax == 0 - 2
MaxArgs ==
    {[a EXCEPT !.max_tracks = m] :
        a \in PlainArgs, m \in (MinMax..(NumTracks + 1)) \ {NoMax}}
        \cup PlainArgs

StartMax == Start(MaxArgs)

\* One run of import_music.main with any integer as --max-tracks, which
\* the user may interrupt
NextMax ==
    \/ StartMax
    \/ StageMatch
    \/ StageAudio
    \/ StageMerge
    \/ StageLoad
    \/ UpdateStats
    \/ Summary
    \/ Interrupt

SpecMax == Init /\ [][NextMax]_vars

\* ------------------------------------------------------------------------
\* The exit code of import_music.main
\* ------------------------------------------------------------------------
\* main: --base-path does not exist or is not a directory: [FATAL], return 1
StartFatal ==
    /\ pc = "start"
    /\ \E a \in AllArgs : args' = a
    /\ pc' = "fatal"
    /\ exit_code' = 1
    /\ UNCHANGED <<content, diskVars, now, db, audio_files, idx, tr, stats,
                   spotify_call_count, ran, raised, written, status, prev,
                   last_spotify_call, clock, workers, cols, hidden>>

\* One run of import_music.main, with a --base-path that is a directory or
\* one that is not
NextExit ==
    \/ StartRun
    \/ StartFatal
    \/ StageMatch
    \/ StageAudio
    \/ StageMerge
    \/ StageLoad
    \/ UpdateStats
    \/ Summary

SpecExit == Init /\ [][NextExit]_vars

\* ------------------------------------------------------------------------
\* A database without the table tracks
\* ------------------------------------------------------------------------
\* db_creator was never run: the database file or its table is missing
InitNoSchema ==
    /\ InitDisk
    /\ InitProcess
    /\ cols = {}

\* One run of import_music.main against it
SpecNoSchema == InitNoSchema /\ [][Next]_vars

\* ------------------------------------------------------------------------
\* An interrupted pass and the pass after it
\* ------------------------------------------------------------------------
\* the stage at pc is one process_track runs for the current track
Running(stage) ==
    /\ pc = stage
    /\ ~skip_flag(stage)
    /\ ~DryRun
    /\ CASE stage = "MATCH" -> need_match(cur)
         [] stage = "AUDIO" -> need_audio(cur)
         [] stage = "MERGE" -> need_merge(cur)

\* Ctrl-C while a stage program is writing its sidecar: the signal goes to
\* the whole process group, the stage program dies between open("w") and
\* the end of the dump, KeyboardInterrupt passes through process_track's
\* `except Exception` and main breaks out of the loop
InterruptWrite ==
    /\ \E stage \in SidecarStages :
         /\ Running(stage)
         /\ ran' = Append(ran, stage)
         /\ spotify_json' = IF stage = "MATCH"
                            THEN [spotify_json EXCEPT ![cur] = Garbled(now)]
                            ELSE spotify_json
         /\ audio_json' = IF stage = "AUDIO"
                          THEN [audio_json EXCEPT ![cur] = Garbled(now)]
                          ELSE audio_json
         /\ final_json' = IF stage = "MERGE"
                          THEN [final_json EXCEPT ![cur] = Garbled(now)]
                          ELSE final_json
         /\ IF stage = "MATCH"
            THEN /\ clock' = throttle_spotify_if_needed(0)
                 /\ last_spotify_call' = clock'
                 /\ spotify_call_count' = spotify_call_count + 1
            ELSE UNCHANGED <<clock, last_spotify_call, spotify_call_count>>
    /\ raised' = "INTERRUPT"
    /\ pc' = "summary"
    /\ UNCHANGED <<content, now, db, audio_files, args, idx, tr, stats,
                   written, status, prev, workers, cols, hidden, exit_code>>

\* the command lines that skip nothing and are not dry, with no stage or
\* every stage forced
ResumeArgs == {a \in AllArgs : /\ ~a.dry_run /\ ~a.skip_match /\ ~a.skip_audio
                               /\ ~a.skip_merge /\ ~a.skip_load
                               /\ a.force_audio = a.force_match
                               /\ a.force_merge = a.force_match
                               /\ a.max_tracks = NoMax}

StartResume == Start(ResumeArgs)

\* the pass after: a new process with no flags at all
Resume ==
    /\ pc = "done"
    /\ ~prev.valid
    /\ prev' = [valid |-> TRUE, args |-> args, stats |-> stats,
                rows |-> Cardinality(db), tr |-> TrackResult]
    /\ args' = NoFlags
    /\ pc' = LoopHead(1, NoFlags)
    /\ spotify_call_count' = 0
    /\ last_spotify_call' = 0
    /\ exit_code' = NoExit
    /\ stats' = Stats
    /\ idx' = 1
    /\ tr' = TrackResult
    /\ ran' = <<>>
    /\ raised' = "none"
    /\ UNCHANGED <<content, diskVars, now, db, audio_files, written, status,
                   clock, workers, cols, hidden>>

\* a collection without sidecars, or with those of one track complete
InitResume ==
    /\ content \in Contents
    /\ \E t0 \in Tracks : \E d \in {Absent, Doc(content[t0], 0)} :
          DiskIs(t0, d, d, d)
    /\ now = 0
    /\ db = {}
    /\ audio_files = [i \in 1..NumTracks |-> i]
    /\ InitOrch

\* A pass that the user may interrupt at any moment of a track, followed
\* by a pass with no flags
NextResume ==
    \/ StartResume
    \/ StageMatch
    \/ StageAudio
    \/ StageMerge
    \/ StageLoad
    \/ UpdateStats
    \/ Summary
    \/ Interrupt
    \/ InterruptWrite
    \/ Resume

SpecResume == InitResume /\ [][NextResume]_vars

\* ------------------------------------------------------------------------
\* Tracks Spotify has no match for
\* ------------------------------------------------------------------------
\* search_best_match may find nothing
MatchNoneOutcomes == {"ok", "fail", "unmatched"}
MatchOrNone == MatchStage(MatchNoneOutcomes, {0})

\* the next run: a new process with any command line
RetryAny ==
    /\ pc = "done"
    /\ ~prev.valid
    /\ prev' = [valid |-> TRUE, args |-> args, stats |-> stats,
                rows |-> Cardinality(db), tr |-> TrackResult]
    /\ \E a \in AllArgs : args' = a /\ pc' = LoopHead(1, a)
    /\ spotify_call_count' = 0
    /\ last_spotify_call' = 0
    /\ exit_code' = NoExit
    /\ stats' = Stats
    /\ idx' = 1
    /\ tr' = TrackResult
    /\ ran' = <<>>
    /\ raised' = "none"
    /\ UNCHANGED <<content, diskVars, now, db, audio_files, written, status,
                   clock, workers, cols, hidden>>

\* a collection of one file without sidecars
InitUnmatched ==
    /\ content = [t \in Tracks |-> 1]
    /\ DiskIs(1, Absent, Absent, Absent)
    /\ now = 0
    /\ db = {}
    /\ audio_files = <<1>>
    /\ InitOrch

\* Two runs of import_music.main over it, the first without --force-*
NextUnmatched ==
    \/ StartPlain
    \/ MatchOrNone
    \/ StageAudio
    \/ StageMerge
    \/ StageLoad
    \/ UpdateStats
    \/ Summary
    \/ RetryAny

SpecUnmatched == InitUnmatched /\ [][NextUnmatched]_vars

\* ------------------------------------------------------------------------
\* Sidecar paths
\* ------------------------------------------------------------------------
NumDirs == 2        \* directories of the collection
NumStems == 2       \* file names without their extension

AUDIO_EXTENSIONS == {".flac", ".wav", ".mp3", ".m4a", ".aac", ".ogg", ".aiff"}
SUFFIXES == {".spotify.json", ".analysis.json", ".final.json"}

\* the audio files a directory walk can find: /dir/base.ext
AudioPaths == [dir : 1..NumDirs, base : 1..NumStems, ext : AUDIO_EXTENSIONS]

\* derive_stem: os.path.splitext drops the extension
derive_stem(audio_path) == [dir |-> audio_path.dir, base |-> audio_path.base]

\* hidden_json_path: dir / ("." + base + suffix)
hidden_json_path(audio_path, suffix) ==
    LET stem == derive_stem(audio_path) IN
    [dir |-> stem.dir, name |-> <<".", stem.base, suffix>>]

\* process_track computes the three sidecar paths of one file of the list
ComputePaths ==
    /\ pc = "start"
    /\ \E i \in 1..Len(audio_files) :
         LET paths == {[audio  |-> audio_files[i],
                        suffix |-> suffix,
                        json   |-> hidden_json_path(audio_files[i], suffix)] :
                            suffix \in SUFFIXES} IN
         /\ ~(paths \subseteq hidden)
         /\ hidden' = hidden \cup paths
    /\ UNCHANGED <<content, diskVars, now, db, orchVars, status,
                   last_spotify_call, clock, workers, cols, exit_code>>

\* the walk found two different audio files
InitPaths ==
    /\ content = [t \in Tracks |-> 1]
    /\ DiskIs(1, Absent, Absent, Absent)
    /\ now = 0
    /\ db = {}
    /\ audio_files \in {f \in AudioPaths \X AudioPaths : f[1] # f[2]}
    /\ InitOrch

NextPaths ==
    \/ ComputePaths

SpecPaths == InitPaths /\ [][NextPaths]_vars

\* ------------------------------------------------------------------------
\* The loader's upsert key
\* ------------------------------------------------------------------------
\* the tables modules.load can meet: tracks with or without each of the two
\* identity columns
KeyTables == {c \in SUBSET SCHEMA_SQL : "id" \in c}

\* _build_record, the row: only the columns of the table are filled
build_row(colset, file_hash, file_path, t) ==
    [file_hash  |-> IF "file_hash" \in colset THEN file_hash ELSE NoHash,
     file_path  |-> IF "file_path" \in colset THEN file_path ELSE NoPath,
     final_path |-> t]

\* the UNIQUE columns the table has
UniqueIn(colset, rows) ==
    \A r1, r2 \in rows :
        \/ "file_path" \in colset /\ r1.file_path = r2.file_path
        \/ "file_hash" \in colset /\ r1.file_hash = r2.file_hash
        => r1 = r2

\* _upsert_track with the key column _build_record chose: SELECT id WHERE
\* key = val, then INSERT, or UPDATE of the other columns
upsert_track_key(colset, data, key, dry) ==
    LET found == {r \in db : r[key] = data[key]} IN
    IF found = {}
    THEN LET rows == db \cup {InsertedRow(data)} IN
         IF dry THEN [code |-> 0, res |-> "dry-run insert", rows |-> db]
         ELSE IF UniqueIn(colset, rows)
              THEN [code |-> 0, res |-> "inserted", rows |-> rows]
              ELSE [code |-> 1, res |-> "IntegrityError", rows |-> db]
    ELSE LET rows == (db \ found) \cup
                     {[old EXCEPT !.file_hash  = data.file_hash,
                                  !.file_path  = data.file_path,
                                  !.final_path = data.final_path,
                                  !.updated_at = now] : old \in found} IN
         IF dry THEN [code |-> 0, res |-> "dry-run update", rows |-> db]
         ELSE IF UniqueIn(colset, rows)
              THEN [code |-> 0, res |-> "updated", rows |-> rows]
              ELSE [code |-> 1, res |-> "IntegrityError", rows |-> db]

\* main for the final sidecar of track t: file_path is what _infer_file_path
\* returns (the audio path, the document's file.path, or None for a .json
\* path whose document has no file.path)
load_main_key(t, file_path, dry) ==
    LET k == build_record_key(cols, final_json[t].hash, file_path) IN
    IF ~(file_exists(final_json[t]) /\ final_json[t].parses)
    THEN [code |-> 1, res |-> "SystemExit", key |-> "none",
          error |-> "no final json", rows |-> db]
    ELSE IF k.code # 0
    THEN [code |-> 1, res |-> "SystemExit", key |-> "none",
          error |-> k.error, rows |-> db]
    ELSE LET u == upsert_track_key(
                      cols, build_row(cols, final_json[t].hash, file_path, t),
                      k.key, dry) IN
         [code |-> u.code, res |-> u.res, key |-> k.key, error |-> "none",
          rows |-> u.rows]

\* modules.load --path <audio file or final sidecar> [--dry-run]
LoadKey(t, file_path, dry) ==
    /\ status' = [prog |-> "load", t |-> t, force |-> FALSE, dry_run |-> dry,
                  res |-> load_main_key(t, file_path, dry).res,
                  before |-> final_json[t], rows |-> db, at |-> now,
                  tracks_cols |-> cols, file_path |-> file_path,
                  key |-> load_main_key(t, file_path, dry).key,
                  error |-> load_main_key(t, file_path, dry).error]
    /\ db' = load_main_key(t, file_path, dry).rows
    /\ UNCHANGED <<last_spotify_call, clock, workers, cols, hidden, exit_code>>
    /\ UNCHANGED <<content, diskVars, now, orchVars>>

\* every track has a final sidecar, with or without a hash; the table has
\* any of the identity columns
InitKey ==
    /\ content \in Contents
    /\ spotify_json = [t \in Tracks |-> Doc(content[t], 0)]
    /\ audio_json = [t \in Tracks |-> Doc(NoHash, 0)]
    /\ final_json \in [Tracks -> {Doc(NoHash, 0)} \cup
                                 {Doc(h, 0) : h \in Hashes}]
    /\ now = 0
    /\ db = {}
    /\ audio_files = [i \in 1..NumTracks |-> i]
    /\ InitProcess
    /\ cols \in KeyTables

NextKey ==
    \/ \E t \in Tracks, known \in BOOLEAN, dry \in BOOLEAN :
         LoadKey(t, IF known THEN t ELSE NoPath, dry)

SpecKey == InitKey /\ [][NextKey]_vars

\* ------------------------------------------------------------------------
\* The stage programs run on their own (python -m modules.<stage> --path)
\* ------------------------------------------------------------------------
\* modules.merge --path <audio file> [--force] [--dry-run]
MergeCLI(t, force, dry_run) ==
    /\ status' = [prog |-> "merge", t |-> t, force |-> force,
                  dry_run |-> dry_run, res |-> merge_status(t, force),
                  before |-> final_json[t], rows |-> db, at |-> now]
    /\ final_json' = [final_json EXCEPT ![t] = merge_final(t, force, dry_run)]
    /\ written' = IF merge_status(t, force) = "merged" /\ ~dry_run
                  THEN written \cup {<<t, "MERGE">>}
                  ELSE written
    /\ UNCHANGED <<last_spotify_call, clock, workers, cols, hidden, exit_code>>
    /\ UNCHANGED <<content, spotify_json, audio_json, now, db, audio_files,
                   args, pc, idx, tr, stats, spotify_call_count, ran, raised,
                   prev>>

\* modules.load --path <audio file> [--dry-run]
LoadCLI(t, dry) ==
    /\ status' = [prog |-> "load", t |-> t, force |-> FALSE, dry_run |-> dry,
                  res |-> load_main(t, dry).res, before |-> final_json[t],
                  rows |-> db, at |-> now]
    /\ db' = load_main(t, dry).rows
    /\ UNCHANGED <<last_spotify_call, clock, workers, cols, hidden, exit_code>>
    /\ UNCHANGED <<content, diskVars, now, orchVars>>

\* The Relational Loader alone: every track has a match sidecar of the file
\* as it is and an analysis sidecar; one track may have a final sidecar
\* merged before its file changed, which carries another hash, and the
\* others have none yet. modules.load and modules.merge --force are run on
\* any track any number of times
InitLoad ==
    /\ content \in Contents
    /\ spotify_json = [t \in Tracks |-> Doc(content[t], 0)]
    /\ audio_json = [t \in Tracks |-> Doc(NoHash, 0)]
    /\ \E t0 \in Tracks :
         \E f \in {Absent, Doc(Other(content[t0]), 0)} :
            final_json = [t \in Tracks |-> IF t = t0 THEN f ELSE Absent]
    /\ now = 0
    /\ db = {}
    /\ audio_files = [i \in 1..NumTracks |-> i]
    /\ InitOrch

NextLoad ==
    \/ \E t \in Tracks, dry \in BOOLEAN : LoadCLI(t, dry)
    \/ \E t \in Tracks : MergeCLI(t, TRUE, FALSE)
    \/ Tick

SpecLoad == InitLoad /\ [][NextLoad]_vars

\* The Reconciler alone: modules.merge run any number of times on one
\* audio file whose three sidecars start in any state
InitMerge ==
    /\ content = [t \in Tracks |-> 1]
    /\ \E s \in Docs, a \in Docs, f \in Docs : DiskIs(1, s, a, f)
    /\ now = 0
    /\ db = {}
    /\ audio_files = <<1>>
    /\ InitOrch

NextMerge ==
    \/ \E force \in BOOLEAN, dry_run \in BOOLEAN : MergeCLI(1, force, dry_run)
    \/ Tick

SpecMerge == InitMerge /\ [][NextMerge]_vars

\* ------------------------------------------------------------------------
\* Properties
\* ------------------------------------------------------------------------
Rank(stage) ==
    CASE stage = "MATCH" -> 1
      [] stage = "AUDIO" -> 2
      [] stage = "MERGE" -> 3
      [] stage = "LOAD"  -> 4

Last(seq) == seq[Len(seq)]

\* C1: within one call of process_track, whatever the flags, the stages
\* that run do so in the order MATCH, AUDIO (analyze), MERGE, LOAD: each
\* stage runs at most once, and while the orchestrator is at a stage only
\* stages before it have run for that track.
C1_StagesInOrder ==
    /\ \A i, j \in 1..Len(ran) : i < j => Rank(ran[i]) < Rank(ran[j])
    /\ pc \in StageNames => \A i \in 1..Len(ran) : Rank(ran[i]) < Rank(pc)

\* C1 witness: a track for which all four stages ran
C1_Witness ==
    pc = "ret" /\ ran = <<"MATCH", "AUDIO", "MERGE", "LOAD">>

\* C2: when run_* of a stage raises, the track's result has failed_stage
\* set to that stage together with the error text, the stage that raised is
\* the last one run for the track, and process_track has returned.
C2_FailureStopsTrack ==
    raised # "none" =>
        /\ tr.failed_stage = raised
        /\ tr.error # "none"
        /\ ran # <<>> /\ Last(ran) = raised
        /\ pc \notin StageNames

\* C2 witness: the analysis raised after a successful match
C2_Witness ==
    raised = "AUDIO" /\ tr.matched /\ pc = "ret"

\* the sidecars of the track the last merge ran on carry two different hashes
MergeInputsDiffer ==
    /\ status.prog = "merge"
    /\ file_exists(spotify_json[status.t]) /\ file_exists(audio_json[status.t])
    /\ spotify_json[status.t].hash # NoHash
    /\ audio_json[status.t].hash # NoHash
    /\ spotify_json[status.t].hash # audio_json[status.t].hash

\* the last merge left the final sidecar as it was
MergeWroteNothing ==
    /\ final_json[status.t] = status.before
    /\ <<status.t, "MERGE">> \notin written

\* C5 as stated: with a match sidecar carrying H1 and an analysis sidecar
\* carrying H2 # H1, merge.process_track returns hash_mismatch and leaves
\* the final sidecar alone, forced or not.
C5_Original ==
    MergeInputsDiffer => status.res = "hash_mismatch" /\ MergeWroteNothing

\* C5 amended: with such sidecars merge.process_track never creates or
\* overwrites the final sidecar; it returns hash_mismatch when the merge is
\* forced or no final sidecar exists, and skipped_final_exists (without
\* comparing the hashes) when a final sidecar exists and it is not forced.
C5_MergeRefusesMismatch ==
    MergeInputsDiffer =>
        /\ MergeWroteNothing
        /\ status.res = IF status.before.exists /\ ~status.force
                        THEN "skipped_final_exists"
                        ELSE "hash_mismatch"

\* C5 witness: a forced merge over an existing final sidecar was refused
C5_Witness ==
    /\ MergeInputsDiffer
    /\ status.force /\ ~status.dry_run /\ status.before.exists
    /\ status.res = "hash_mismatch"

\* C7: a final document is written only when the match document's and the
\* analysis document's hash are both present and equal.
C7_FinalOnlyWhenHashesAgree ==
    (status.prog = "merge" /\ status.res = "merged") =>
        /\ spotify_json[status.t].hash # NoHash
        /\ audio_json[status.t].hash # NoHash
        /\ spotify_json[status.t].hash = audio_json[status.t].hash

\* C7 witness: a final document written from two documents of equal hash
C7_Witness ==
    /\ status.prog = "merge" /\ status.res = "merged" /\ ~status.dry_run
    /\ spotify_json[status.t].hash # NoHash
    /\ spotify_json[status.t].hash = audio_json[status.t].hash
    /\ <<status.t, "MERGE">> \in written

\* the final sidecar of track t is older than one of its two inputs
Stale(t) ==
    \/ newer_than(spotify_json[t], final_json[t])
    \/ newer_than(audio_json[t], final_json[t])

\* C4: without force_merge and skip_merge, a final sidecar that is older
\* than the match or the analysis sidecar is merged again and refreshed: once
\* the MERGE block is over, an existing final sidecar is never older than an
\* input.
C4_StaleFinalRemerged ==
    (/\ pc = "LOAD"
     /\ ~args.force_merge /\ ~args.skip_merge /\ ~args.dry_run
     /\ file_exists(final_json[cur]))
        => ~Stale(cur)

\* the MERGE stage ran for the current track over two sidecars whose hashes
\* differ, and the merge program itself did not crash
MergedOverMismatch ==
    /\ (pc = "LOAD" \/ pc = "ret")
    /\ "MERGE" \in {ran[i] : i \in 1..Len(ran)}
    /\ raised # "MERGE"
    /\ file_exists(spotify_json[cur]) /\ file_exists(audio_json[cur])
    /\ ~file_exists(final_json[cur])
    /\ HashMismatch(spotify_json[cur].hash, audio_json[cur].hash)

\* C6: when the match and the analysis sidecar of a track carry different
\* hashes, the MERGE stage ends as a failure: failed_stage is MERGE, merged
\* stays false and no final sidecar is written.
C6_MismatchFailsMerge ==
    MergedOverMismatch =>
        /\ tr.failed_stage = "MERGE"
        /\ ~tr.merged
        /\ <<cur, "MERGE">> \notin written

\* the sidecar a stage writes for track t
Sidecar(t, stage) ==
    CASE stage = "MATCH" -> spotify_json[t]
      [] stage = "AUDIO" -> audio_json[t]
      [] stage = "MERGE" -> final_json[t]

\* C8: every sidecar the pipeline writes carries the content hash of the
\* track's file (the files do not change during the run).
C8_SidecarsCarryHash ==
    \A w \in written : Sidecar(w[1], w[2]).hash = compute_file_hash(w[1])

\* the second run has returned
SecondRunDone == pc = "done" /\ prev.valid

\* the second run called MATCH for no track and left the number of rows of
\* the tracks table as the first run left it
NothingNew ==
    /\ stats.spotify_calls = 0
    /\ Cardinality(db) = prev.rows

Loaded ==
    /\ status.prog = "load"
    /\ ~status.dry_run
    /\ record_ok(status.t)

\* the rows the table held before the load, by each of the two keys
RowsByHash == {r \in status.rows : r.file_hash = build_record(status.t).file_hash}
RowsByPath == {r \in status.rows : r.file_path = build_record(status.t).file_path}

\* C9: a load for a track whose content hash matches no row but whose file
\* path matches an existing row updates that row rather than inserting a new
\* one, and the track is then represented by exactly one row.
C9_PathIsSecondKey ==
    (Loaded /\ RowsByHash = {} /\ RowsByPath # {}) =>
        /\ status.res = "updated"
        /\ Cardinality(db) = Cardinality(status.rows)
        /\ \E r \in db : /\ r.file_path = build_record(status.t).file_path
                         /\ r.file_hash = build_record(status.t).file_hash

\* the row of the record just loaded
RowAfter == CHOOSE r \in db : r.file_hash = build_record(status.t).file_hash

\* the load just run found the table already holding the row of the very
\* same record: it is the second of two loads of that record
LoadedAgain ==
    /\ Loaded
    /\ \E r \in RowsByHash : /\ r.file_path = build_record(status.t).file_path
                             /\ r.final_path = build_record(status.t).final_path

\* C10: the second of two loads of the same canonical record is an update
\* that keeps one row for it, leaves added_at and the data columns as the
\* first load set them, sets updated_at to the time of the second load and
\* leaves the row count unchanged.
C10_SecondLoadKeepsRow ==
    LoadedAgain =>
        /\ status.res = "updated"
        /\ Cardinality(db) = Cardinality(status.rows)
        /\ Cardinality({r \in db : r.file_hash = RowAfter.file_hash}) = 1
        /\ \A old \in RowsByHash :
              /\ RowAfter.added_at = old.added_at
              /\ RowAfter.file_path = old.file_path
              /\ RowAfter.final_path = old.final_path
        /\ RowAfter.updated_at = status.at

C10_Witness ==
    /\ LoadedAgain
    /\ status.res = "updated"
    /\ RowAfter.added_at = 0
    /\ RowAfter.updated_at = MaxTime
    /\ Cardinality(db) = NumTracks

\* the stages run so far for the current track, as a set
Ran == {ran[i] : i \in 1..Len(ran)}

\* process_track has returned for the current track of the scenario, the
\* run has no flags, and every stage executed for the track succeeded: none
\* raised and the track has its three sidecars and a row
TrackSucceeded ==
    /\ pc = "ret"
    /\ args = NoFlags
    /\ tr.failed_stage = "none"
    /\ file_exists(spotify_json[cur])
    /\ file_exists(audio_json[cur])
    /\ file_exists(final_json[cur])
    /\ \E r \in db : r.file_path = cur

\* the run over the scenario has returned, it had no flags, and every stage
\* executed succeeded for every track
RunSucceeded ==
    /\ pc = "done"
    /\ args = NoFlags
    /\ stats.failed = 0
    /\ \A t \in DOMAIN content :
          /\ file_exists(spotify_json[t])
          /\ file_exists(audio_json[t])
          /\ file_exists(final_json[t])
          /\ \E r \in db : r.file_path = t

\* C11 as stated: no stage runs for track 1, ANALYZE, MERGE and LOAD run
\* for track 2, all four for track 3, and the summary counts are matched=1,
\* analyzed=2, merged=2, loaded=2, failed=0.
C11_Original ==
    /\ TrackSucceeded =>
          Ran = CASE idx = 1 -> {}
                  [] idx = 2 -> StagesAfterMatch
                  [] idx = 3 -> StageNames
    /\ RunSucceeded =>
          /\ stats.matched = 1 /\ stats.analyzed = 2 /\ stats.merged = 2
          /\ stats.loaded = 2 /\ stats.failed = 0

\* C11: in that scenario LOAD (and only LOAD) runs for track 1, whose final
\* sidecar exists; ANALYZE, MERGE and LOAD run for track 2, all four stages
\* for track 3, and the summary counts are matched=1, analyzed=2, merged=2,
\* loaded=3, failed=0 over a total of 3.
C11_ScenarioCounts ==
    /\ TrackSucceeded =>
          Ran = CASE idx = 1 -> {"LOAD"}
                  [] idx = 2 -> StagesAfterMatch
                  [] idx = 3 -> StageNames
    /\ RunSucceeded =>
          /\ stats.matched = 1 /\ stats.analyzed = 2 /\ stats.merged = 2
          /\ stats.loaded = 3 /\ stats.failed = 0 /\ stats.total = 3

C11_Witness ==
    /\ RunSucceeded
    /\ stats.loaded = 3
    /\ Cardinality(db) = 3

\* the stage block of process_track is left in this step
Leaves(stage) == pc = stage /\ pc' # stage

\* C12: with skip_match unset MATCH runs for a track exactly when
\* force_match is set or the match sidecar is absent at that moment, and
\* with skip_audio unset ANALYZE runs exactly when force_audio is set or the
\* analysis sidecar is absent; a stage not selected is skipped and its done
\* flag stays false. (Under --dry-run the selected stage is only logged.)
C12_MatchAnalyzeRule ==
    [][/\ (Leaves("MATCH") /\ ~args.skip_match) =>
            LET need == args.force_match \/ ~spotify_json[cur].exists IN
            /\ ("MATCH" \in Ran') <=> (need /\ ~args.dry_run)
            /\ ~need => (~tr'.matched /\ spotify_json' = spotify_json)
       /\ (Leaves("AUDIO") /\ ~args.skip_audio) =>
            LET need == args.force_audio \/ ~audio_json[cur].exists IN
            /\ ("AUDIO" \in Ran') <=> (need /\ ~args.dry_run)
            /\ ~need => (~tr'.analyzed /\ audio_json' = audio_json)
      ]_vars

\* C12 witness: MATCH was skipped over an existing sidecar and ANALYZE was
\* forced over an existing one
C12_Witness ==
    /\ pc = "MERGE"
    /\ ~args.skip_match /\ ~args.skip_audio /\ ~args.force_match
    /\ args.force_audio
    /\ Ran = {"AUDIO"}
    /\ ~tr.matched /\ tr.analyzed
    /\ <<cur, "AUDIO">> \in written

\* C13: with skip_load unset LOAD runs for a track exactly when its final
\* sidecar exists when LOAD is reached; without a final sidecar LOAD does
\* not run, the track is not marked failed, its loaded flag stays false and
\* the table is left alone. (Under --dry-run the load is only logged.)
C13_LoadRule ==
    [][(Leaves("LOAD") /\ ~args.skip_load) =>
          /\ ("LOAD" \in Ran') <=> (final_json[cur].exists /\ ~args.dry_run)
          /\ ~final_json[cur].exists =>
                /\ tr'.failed_stage = "none"
                /\ ~tr'.loaded
                /\ db' = db
      ]_vars

\* C13 witness: MERGE ran and left no final sidecar, LOAD was passed over
\* and the track is not failed
C13_Witness ==
    /\ pc = "ret"
    /\ ~args.skip_load /\ ~args.dry_run
    /\ "MERGE" \in Ran /\ "LOAD" \notin Ran
    /\ ~file_exists(final_json[cur])
    /\ tr.failed_stage = "none" /\ ~tr.loaded

\* the done flag and the summary counter of a stage
DoneFlag(stage) ==
    CASE stage = "MATCH" -> tr.matched
      [] stage = "AUDIO" -> tr.analyzed
      [] stage = "MERGE" -> tr.merged
      [] stage = "LOAD"  -> tr.loaded

DoneCount(stage) ==
    CASE stage = "MATCH" -> stats.matched
      [] stage = "AUDIO" -> stats.analyzed
      [] stage = "MERGE" -> stats.merged
      [] stage = "LOAD"  -> stats.loaded

SkipSet(stage) ==
    CASE stage = "MATCH" -> args.skip_match
      [] stage = "AUDIO" -> args.skip_audio
      [] stage = "MERGE" -> args.skip_merge
      [] stage = "LOAD"  -> args.skip_load

Cap ==
    IF args.max_tracks # NoMax /\ args.max_tracks < Len(audio_files)
    THEN args.max_tracks
    ELSE Len(audio_files)

\* C15: whatever stages fail, unless the run is interrupted every file up
\* to the max-tracks cap is processed once, in order, and counted once: the
\* track being processed is always the (total + 1)-th, and the run ends with
\* total equal to the cap and failed counting the failed tracks among them.
C15_EveryTrackOnce ==
    /\ (pc \in StageNames \/ pc = "ret") =>
          /\ stats.total = idx - 1
          /\ idx <= Cap
          /\ cur = idx
    /\ ((pc = "summary" \/ pc = "done") /\ raised # "INTERRUPT") =>
          /\ stats.total = Cap
          /\ idx = Cap + 1
    /\ stats.failed <= stats.total

\* C15 witness: the first track failed and the second was loaded
C15_Witness ==
    /\ pc = "done"
    /\ raised # "INTERRUPT"
    /\ args.max_tracks = NumTracks
    /\ stats.failed = 1
    /\ stats.loaded = NumTracks - 1
    /\ stats.total = NumTracks
    /\ \E r \in db : r.file_path = NumTracks
    /\ ~\E r \in db : r.file_path = 1

\* the second pass over the track has returned; the first pass, run
\* without force flags, failed at that stage, and the second pass, run
\* without the stage's skip flag and not as a dry run, got as far as it
RetriedAfter(stage) ==
    /\ pc = "ret"
    /\ prev.valid
    /\ prev.args \in PlainArgs
    /\ prev.tr.failed_stage = stage
    /\ ~SkipSet(stage) /\ ~args.dry_run
    /\ (raised = "none" \/ Rank(raised) >= Rank(stage))

\* C16: a stage that failed for a track in one pass is executed again for
\* that track in the next pass run without force flags.
C16_FailedStageRunsAgain ==
    \A stage \in StageNames : RetriedAfter(stage) => stage \in Ran


\* the sidecar a stage produces is on disk but is not a valid document
Malformed(stage) ==
    LET d == Sidecar(cur, stage) IN d.exists /\ ~d.parses

\* C17: a sidecar that exists but does not parse is treated as absent: a
\* pass without skip, force or dry-run flags that reaches the stage
\* producing it runs that stage again.
C17_MalformedRunsAgain ==
    [][\A stage \in SidecarStages :
          (/\ Leaves(stage) /\ Malformed(stage)
           /\ ~SkipSet(stage) /\ ~args.dry_run)
          => stage \in Ran'
      ]_vars

\* C18: a sidecar write is atomic: whatever happens to the stage that
\* writes it, a step leaves each sidecar either as it was or as a complete
\* document, never empty or partially written.
C18_WriteIsAtomic ==
    [][\A t \in DOMAIN content : \A stage \in SidecarStages :
          \/ Sidecar(t, stage)' = Sidecar(t, stage)
          \/ Sidecar(t, stage)'.parses
      ]_vars

\* run_match makes its external call in this step
MatchCalls == pc = "MATCH" /\ ran' # ran

\* C19: every MATCH call that is not a dry run passes the throttle, which
\* records the time of the call, at least MIN_SPOTIFY_INTERVAL after the
\* time recorded for the call before it, however many tracks there are; a
\* MATCH stage that is skipped or runs dry neither waits nor touches the
\* recorded time, and no other step touches it.
C19_ThrottleSpacesCalls ==
    [][/\ MatchCalls =>
            /\ ~args.dry_run
            /\ last_spotify_call' = clock'
            /\ clock' >= clock
            /\ last_spotify_call' - last_spotify_call >= MIN_SPOTIFY_INTERVAL
       /\ (Leaves("MATCH") /\ ~MatchCalls) =>
            /\ args.skip_match \/ args.dry_run \/ ~need_match(cur)
            /\ clock' = clock
       /\ ~MatchCalls => last_spotify_call' = last_spotify_call
      ]_vars

\* C19 witness: the second call of a run has waited out the interval, and
\* the stage after it is reached
C19_Witness ==
    /\ spotify_call_count = NumTracks
    /\ idx = NumTracks
    /\ pc = "AUDIO"
    /\ last_spotify_call = clock
    /\ clock >= StartTime + MIN_SPOTIFY_INTERVAL

\* a thread past its external call
CalledPcs == {"load", "store", "done"}

\* both threads have made their external call
BothCalled(v, w) ==
    /\ v # w
    /\ workers[v].pc \in CalledPcs
    /\ workers[w].pc \in CalledPcs

\* C20: when the throttle is called from several threads, any two of the
\* external calls it lets through are at least MIN_SPOTIFY_INTERVAL apart,
\* and once all threads have left run_match the call counter has counted
\* every call.
C20_ThrottleIsThreadSafe ==
    /\ \A v, w \in Workers :
          BothCalled(v, w) =>
             \/ workers[v].called_at - workers[w].called_at >= MIN_SPOTIFY_INTERVAL
             \/ workers[w].called_at - workers[v].called_at >= MIN_SPOTIFY_INTERVAL
    /\ (\A w \in Workers : workers[w].pc = "done") =>
          spotify_call_count = NumWorkers

\* the counters of the stages done, in Stats and in the TrackResult
NothingDone(st, r) ==
    /\ st.matched = 0 /\ st.analyzed = 0 /\ st.merged = 0 /\ st.loaded = 0
    /\ ~r.matched /\ ~r.analyzed /\ ~r.merged /\ ~r.loaded

\* C21: in a pass with --dry-run, whatever the other flags, no step makes
\* an external call (the call counter and the throttle's time stay as they
\* are), creates or changes a sidecar, or inserts or updates a row, and the
\* matched, analyzed, merged and loaded counters stay 0.
C21_DryRunTouchesNothing ==
    [][args'.dry_run =>
          /\ UNCHANGED <<diskVars, db, spotify_call_count, last_spotify_call>>
          /\ ran' = <<>>
          /\ NothingDone(stats', tr')
      ]_vars

\* C21 witness: a dry pass with every stage forced, over a track that has
\* all its sidecars, has returned having processed every file
C21_Witness ==
    /\ pc = "done"
    /\ args.dry_run /\ args.force_match /\ args.force_audio /\ args.force_merge
    /\ ~args.skip_match /\ ~args.skip_audio /\ ~args.skip_merge /\ ~args.skip_load
    /\ stats.total = NumTracks
    /\ \E t \in Tracks : final_json[t].exists /\ spotify_json[t].exists

\* min(N, number of discovered files), 0 when N <= 0; the number of files
\* when there is no --max-tracks
Limit ==
    IF args.max_tracks = NoMax THEN Len(audio_files)
    ELSE IF args.max_tracks <= 0 THEN 0
    ELSE IF args.max_tracks < Len(audio_files) THEN args.max_tracks
    ELSE Len(audio_files)

C23_ExitCode ==
    /\ pc = "done" => exit_code = 0
    /\ pc = "fatal" =>
          /\ exit_code # 0 /\ exit_code # NoExit
          /\ stats = Stats
          /\ ran = <<>> /\ written = {} /\ db = {}
          /\ spotify_call_count = 0
    /\ exit_code # NoExit => (pc = "done" \/ pc = "fatal")

\* C23 witness: the pass has returned 0 with every track failed, one in
\* MATCH and one in a later stage
C23_Witness ==
    /\ pc = "done"
    /\ exit_code = 0
    /\ stats.failed = NumTracks
    /\ stats.matched >= 1

\* C24: when the database file or its table tracks is missing, the run
\* aborts with a non-zero exit code: no track is given a LOAD failure and
\* the pass does not return 0.
C24_SchemaMissingIsFatal ==
    cols = {} =>
       /\ tr.failed_stage # "LOAD"
       /\ ~(pc = "done" /\ stats.failed > 0 /\ exit_code = 0)

Interrupted == raised # "INTERRUPT" /\ raised' = "INTERRUPT"

\* C26: after an interrupt no stage of a further track is started; the
\* interrupt leaves every sidecar that was complete before it as it was;
\* and the following pass with no flags resumes: it skips a stage whose
\* sidecar is complete and runs a stage whose sidecar is not.
C26_InterruptResumes ==
    [][/\ raised = "INTERRUPT" =>
            (pc' = "summary" \/ pc' = "done" \/ prev'.valid)
       /\ Interrupted =>
            \A t \in DOMAIN content : \A stage \in SidecarStages :
               Sidecar(t, stage).parses => Sidecar(t, stage)' = Sidecar(t, stage)
       /\ \A stage \in SidecarStages :
            (prev.valid /\ Leaves(stage) /\ raised' # "INTERRUPT") =>
               (stage \in Ran' <=> ~Sidecar(cur, stage).parses)
      ]_vars

\* C27: no step of the pipeline, whatever the flags and whether the stage
\* succeeds, fails or is interrupted, deletes a sidecar: a sidecar that
\* exists before a step exists after it, in this pass and the next.
C27_SidecarsNeverDeleted ==
    [][\A t \in DOMAIN content : \A stage \in SidecarStages :
          Sidecar(t, stage).exists => Sidecar(t, stage)'.exists
      ]_vars

\* C27 witness: after a pass that forced MATCH and a second pass, the first
\* track still has its three sidecars, and one was rewritten
C27_Witness ==
    /\ pc = "done"
    /\ prev.valid /\ prev.args.force_match
    /\ \A stage \in SidecarStages : Sidecar(1, stage).exists
    /\ <<1, "MATCH">> \in written

\* C28: when MATCH has run without raising, found a match or not, the
\* track has a complete match sidecar and MATCH counts as done; over a
\* sidecar that records "no match" a later pass without force_match leaves
\* the MATCH block without running MATCH and without an external call, and
\* the sidecar stays as it is.
C28_UnmatchedIsDone ==
    [][/\ (MatchCalls /\ raised' = "none") =>
            /\ spotify_json'[cur].parses
            /\ tr'.matched
       /\ (Leaves("MATCH") /\ spotify_json[cur].unmatched /\ ~args.force_match) =>
            /\ "MATCH" \notin Ran'
            /\ spotify_call_count' = spotify_call_count
            /\ last_spotify_call' = last_spotify_call
            /\ spotify_json' = spotify_json
      ]_vars

\* C28 witness: the second pass has got past MATCH for a track whose match
\* sidecar, written by the first pass, records "no match"
C28_Witness ==
    /\ prev.valid /\ prev.stats.matched = 1
    /\ ~args.skip_match /\ ~args.force_match /\ ~args.dry_run
    /\ pc = "AUDIO"
    /\ spotify_json[1].unmatched /\ spotify_json[1].parses
    /\ spotify_call_count = 0

\* C29: the sidecar path is an injective function of (track path, stage):
\* two of the sidecar paths computed for a collection are the same only if
\* they are of the same audio file and the same stage.
C29_SidecarPathsInjective ==
    \A a, b \in hidden :
        a.json = b.json => (a.audio = b.audio /\ a.suffix = b.suffix)

\* C30: the loader's upsert key is the content hash when the table has a
\* file_hash column and the hash of the record is known; otherwise the file
\* path when the table has a file_path column and the path is known (also
\* when the table has a file_hash column and the hash is unknown); otherwise
\* the load fails and writes nothing (whatever the error message is).
C30_UpsertKey ==
    (status.prog = "load" /\ file_exists(status.before) /\ status.before.parses)
    => IF "file_hash" \in status.tracks_cols /\ status.before.hash # NoHash
       THEN status.key = "file_hash"
       ELSE IF "file_path" \in status.tracks_cols /\ status.file_path # NoPath
       THEN status.key = "file_path"
       ELSE status.res = "SystemExit" /\ db = status.rows

\* C32: with force_analyze set and skip_analyze unset, a pass (not dry) runs
\* the analysis again for a track whose analysis sidecar exists, and when
\* the stage ends well the analysis sidecar has been rewritten by it.
C32_ForceAnalyzeRewrites ==
    [][(/\ Leaves("AUDIO")
        /\ args.force_audio /\ ~args.skip_audio /\ ~args.dry_run
        /\ file_exists(audio_json[cur])
        /\ tr'.analyzed)
       => /\ "AUDIO" \in Ran'
          /\ <<cur, "AUDIO">> \in written'
      ]_vars

\* C33: with force_merge set and skip_merge unset, a pass (not dry) runs the
\* merge again for a track whose final sidecar exists, and when the stage
\* ends well over two readable inputs the final sidecar has been written
\* again from the match and analysis sidecars as they are.
C33_ForceMergeRegenerates ==
    [][(/\ Leaves("MERGE")
        /\ args.force_merge /\ ~args.skip_merge /\ ~args.dry_run
        /\ file_exists(final_json[cur])
        /\ file_exists(spotify_json[cur]) /\ spotify_json[cur].parses
        /\ file_exists(audio_json[cur]) /\ audio_json[cur].parses
        /\ ~HashMismatch(safe_get_file_hash(spotify_json[cur]),
                         safe_get_file_hash(audio_json[cur]))
        /\ tr'.merged)
       => /\ "MERGE" \in Ran'
          /\ <<cur, "MERGE">> \in written'
          /\ final_json'[cur] =
                build_final_json(spotify_json[cur], audio_json[cur])
      ]_vars

\* C38: in a pass that is not dry, a stage recorded as done for a track
\* (matched, analyzed, merged) has its sidecar on disk, written by that
\* stage in this pass, and a track recorded as loaded has a row in the
\* tracks table.
C38_DoneMeansWritten ==
    (~args.dry_run /\ (pc \in StageNames \/ pc = "ret")) =>
        /\ \A stage \in SidecarStages :
              DoneFlag(stage) =>
                 /\ file_exists(Sidecar(cur, stage))
                 /\ <<cur, stage>> \in written
        /\ tr.loaded => \E r \in db : r.file_path = cur

\* C39: loading the final document of one track leaves every row of another
\* track (a row whose file path is another track's path) as it was, also
\* when the two files have the same content and so the same hash.
C39_OtherTracksRowsKept ==
    (status.prog = "load" /\ ~status.dry_run) =>
        \A r \in status.rows : r.file_path # status.t => r \in db

\* ------------------------------------------------------------------------
\* modules/merge.py, build_final_json in detail: the two source documents
\* section by section
\* ------------------------------------------------------------------------

NumValues == 2      \* distinct values a file-info field can have

\* a field that the file-info section does not have
NoField == 0

\* the fields of a file-info section
FileKeys == {"path", "hash_sha256"}

\* a "file" entry of a source document: a dict of fields, or something else
\* (the analysis stage writes the audio path as a string there)
NotADict == [dict |-> FALSE, items |-> [k \in FileKeys |-> NoField]]

FileSections ==
    {[dict |-> TRUE, items |-> f] : f \in [FileKeys -> 0..NumValues]}
        \cup {NotADict}

\* a section of a document other than "file": not there (or null), or there
\* with some content
SectionValues == {"missing", "a"}

\* the sections that only the analysis stage produces (AnalysisJSON)
AnalyzeOnly == {"embedding", "features", "genre", "mood", "instruments"}

\* the document written by the match stage and one that modules.merge can
\* read in its place
SpotifyDocs ==
    [schema : {"a"}, file : FileSections, local_tags : SectionValues,
     spotify : SectionValues, match : {"a"}]

\* the document written by the analysis stage and one that modules.merge can
\* read in its place
AudioDocs ==
    [version : {"a"}, file : FileSections, rel_path_from_root : {"a"},
     schema : {"missing"}, local_tags : SectionValues, audio : {"missing"},
     embedding : SectionValues, features : SectionValues,
     genre : SectionValues, mood : SectionValues,
     instruments : SectionValues]

\* x or {}
or_empty(x) == IF x = "missing" THEN "empty" ELSE x

\* the fields of a "file" entry: none when it is not a dict
file_items(section) ==
    IF section.dict THEN section.items ELSE [k \in FileKeys |-> NoField]

\* the same block with the analysis document's fields taken first
file_info_audio_first(spotify, audio) ==
    LET file_info_spot  == file_items(spotify.file)
        file_info_audio == file_items(audio.file) IN
    [k \in FileKeys |-> IF file_info_audio[k] # NoField
                        THEN file_info_audio[k] ELSE file_info_spot[k]]

\* the "file" block: a copy of spotify["file"], then every field of
\* audio["file"] that the copy does not have yet
file_info(spotify, audio) ==
    LET file_info_spot  == file_items(spotify.file)
        file_info_audio == file_items(audio.file) IN
    [k \in FileKeys |-> IF file_info_spot[k] # NoField
                        THEN file_info_spot[k] ELSE file_info_audio[k]]

final_obj(spotify, audio, audio_json_path, spotify_json_path) ==
    [schema      |-> [type |-> "track_final", version |-> 1,
                      sources |-> [spotify |-> spotify.schema,
                                   audio   |-> audio.schema]],
     file        |-> file_info(spotify, audio),
     local_tags  |-> IF spotify.local_tags # "missing" THEN spotify.local_tags
                     ELSE or_empty(audio.local_tags),
     spotify     |-> or_empty(spotify.spotify),
     match       |-> or_empty(spotify.match),
     audio       |-> or_empty(audio.audio),
     features    |-> or_empty(audio.features),
     genre       |-> or_empty(audio.genre),
     mood        |-> or_empty(audio.mood),
     instruments |-> or_empty(audio.instruments),
     merge       |-> [created_at   |-> now,
                      audio_json   |-> audio_json_path,
                      spotify_json |-> spotify_json_path]]

\* build_final_json is applied to the two documents read for track t
BuildFinal(t) ==
    /\ status.prog = "input"
    /\ status' = [status EXCEPT
                    !.prog = "merged", !.t = t,
                    !.final = final_obj(status.spotify, status.audio,
                                        <<t, ".analysis.json">>,
                                        <<t, ".spotify.json">>)]
    /\ UNCHANGED <<content, diskVars, now, db, orchVars,
                   last_spotify_call, clock, workers, cols, exit_code, hidden>>

\* any two source documents have been read
InitBuild ==
    /\ content = [t \in Tracks |-> 1]
    /\ DiskIs(1, Absent, Absent, Absent)
    /\ now = 0
    /\ db = {}
    /\ audio_files = [i \in 1..NumTracks |-> i]
    /\ args = NoFlags
    /\ pc = "start"
    /\ idx = 1
    /\ tr = TrackResult
    /\ stats = Stats
    /\ spotify_call_count = 0
    /\ ran = <<>>
    /\ raised = "none"
    /\ written = {}
    /\ prev = NoPrev
    /\ last_spotify_call = 0
    /\ clock = StartTime
    /\ workers = [w \in Workers |-> Idle]
    /\ exit_code = NoExit
    /\ hidden = {}
    /\ cols = SCHEMA_SQL
    /\ \E spotify \in SpotifyDocs, audio \in AudioDocs :
         status = [prog |-> "input", t |-> 1, spotify |-> spotify,
                   audio |-> audio, final |-> "none"]

NextBuild ==
    \/ \E t \in Tracks : BuildFinal(t)

SpecBuild == InitBuild /\ [][NextBuild]_vars

\* a "file" entry has field k
HasField(section, k) == section.dict /\ section.items[k] # NoField

\* C34: the file-info section of the final document is the union of the two
\* source file-info sections: a field of the match document has the match
\* document's value, a field of the analysis document alone has the analysis
\* document's value, and there is no other field.
C34_FileInfoUnion ==
    status.prog = "merged" =>
        \A k \in FileKeys :
            /\ HasField(status.spotify.file, k) =>
                  status.final.file[k] = status.spotify.file.items[k]
            /\ (~HasField(status.spotify.file, k)
                  /\ HasField(status.audio.file, k)) =>
                  status.final.file[k] = status.audio.file.items[k]
            /\ (~HasField(status.spotify.file, k)
                  /\ ~HasField(status.audio.file, k)) =>
                  status.final.file[k] = NoField

\* both documents have a field with different values, and the analysis
\* document has a field that the match document has not
C34_Witness ==
    /\ status.prog = "merged"
    /\ \E k \in FileKeys :
          /\ HasField(status.spotify.file, k)
          /\ HasField(status.audio.file, k)
          /\ status.spotify.file.items[k] # status.audio.file.items[k]
    /\ \E k \in FileKeys :
          /\ ~HasField(status.spotify.file, k)
          /\ HasField(status.audio.file, k)

\* C35: every section that only the analysis stage produces and that the
\* analysis document has is in the final document with the same value, and
\* the final document carries the merge time and the two sidecar paths.
C35_AnalyzeSectionsVerbatim ==
    status.prog = "merged" =>
        /\ \A k \in AnalyzeOnly :
              status.audio[k] # "missing" =>
                 /\ k \in DOMAIN status.final
                 /\ status.final[k] = status.audio[k]
        /\ status.final.merge = [created_at   |-> now,
                                 audio_json   |-> <<status.t, ".analysis.json">>,
                                 spotify_json |-> <<status.t, ".spotify.json">>]

\* ------------------------------------------------------------------------
\* modules/load.py, _build_record and _upsert_track in detail: the row
\* column by column
\* ------------------------------------------------------------------------

\* None in a document or a dict, NULL in the table
NULL == 0 - 1

\* columns of the tracks table of SCHEMA_SQL: the identity, some basic tags,
\* one audio feature, one path, the flags, and notes, which no stage fills
TrackColumns ==
    {"file_hash", "file_path", "title", "artist", "album_artist", "bpm",
     "final_path", "analysis_version", "is_missing", "notes",
     "added_at", "updated_at"}

\* the same table with one of the columns _build_record fills "if we have
\* such columns"
TrackColumnsWide == TrackColumns \cup {"lead_instrument"}

RowTables == {TrackColumns, TrackColumnsWide}

\* the columns _build_record can put into the row
AssignedColumns ==
    {"file_hash", "file_path", "title", "artist", "album_artist", "bpm",
     "lead_instrument", "final_path", "analysis_version", "is_missing"}

\* columns whose value is not taken from the sections of the document: where
\* the file and its final sidecar are, and when the row was written
PlaceAndTime == {"file_path", "final_path", "added_at", "updated_at"}

LocalTitles  == {NULL, 1}
SpotifyNames == {NULL, 2}
LocalArtists == {NULL, 1}
SpotifyArtists == {NULL, 2}
LocalAlbumArtists == {NULL, 3}
Tempos == {NULL, 1}
Leads  == {NULL, 1}

\* final documents of one file: the local tags and the spotify block as
\* match.py writes them, the features as the analysis writes them, and the
\* instruments with the field InstrumentInfo has (lead_instrument) and the
\* field _build_record reads (lead)
FinalObjs ==
    [file        : [hash_sha256 : {1}],
     local_tags  : [title : LocalTitles, artist : LocalArtists,
                    album_artist : LocalAlbumArtists],
     spotify     : [name : SpotifyNames, artists : SpotifyArtists],
     features    : [tempo : Tempos],
     instruments : [lead_instrument : Leads, lead : Leads]]

\* a or b, for values that are None or truthy
Or(a, b) == IF a # NULL THEN a ELSE b

\* _build_record: the row dict, with a key for every column it assigns
build_record_row(obj, colset, file_path, final_json_path) ==
    LET artist == Or(obj.local_tags.artist, obj.spotify.artists)
        value(c) ==
           CASE c = "file_hash"    -> obj.file.hash_sha256
             [] c = "file_path"    -> file_path
             [] c = "title"        -> Or(obj.local_tags.title, obj.spotify.name)
             [] c = "artist"       -> artist
             [] c = "album_artist" ->
                   Or(obj.local_tags.album_artist,
                      IF "artist" \in colset THEN artist ELSE NULL)
             [] c = "bpm"          -> obj.features.tempo
             [] c = "lead_instrument" -> obj.instruments.lead
             [] c = "final_path"   -> final_json_path
             [] c = "analysis_version" -> 1
             [] c = "is_missing"   -> 0
    IN [c \in colset \cap AssignedColumns |-> value(c)]

\* SCHEMA_SQL: is_missing INTEGER DEFAULT 0
column_default(c) == IF c = "is_missing" THEN 0 ELSE NULL

\* _upsert_track, the INSERT branch at time at
insert_row(colset, data, at) ==
    [c \in colset |->
        IF c = "updated_at" THEN at
        ELSE IF c \in DOMAIN data THEN data[c]
        ELSE IF c = "added_at" THEN at
        ELSE column_default(c)]

\* _upsert_track, the UPDATE branch: every key of the dict but added_at and
\* the upsert key is SET
update_row(old, data, key, at) ==
    [c \in DOMAIN old |->
        IF c = "updated_at" THEN at
        ELSE IF c \in DOMAIN data /\ c # "added_at" /\ c # key THEN data[c]
        ELSE old[c]]

\* _upsert_track on the rows of the table
upsert_row(colset, rows, data, key, val, at) ==
    LET found == {r \in rows : r[key] = val} IN
    IF found = {}
    THEN [res |-> "inserted", rows |-> rows \cup {insert_row(colset, data, at)}]
    ELSE LET old == CHOOSE r \in found : TRUE IN
         [res |-> "updated",
          rows |-> (rows \ {old}) \cup {update_row(old, data, key, at)}]

\* rows that an earlier load of some final document of the file inserted
EarlierRows(colset) ==
    {insert_row(colset, build_record_row(obj, colset, 1, 1), 0) :
        obj \in FinalObjs}

\* modules.load --path on the file whose final document was read
LoadRow ==
    /\ status.prog = "input"
    /\ LET data == build_record_row(status.obj, cols, status.t, status.t)
           up   == upsert_row(cols, db, data, "file_hash",
                              data["file_hash"], now) IN
       /\ status' = [status EXCEPT !.prog = "load", !.data = data,
                                   !.rows = db, !.res = up.res]
       /\ db' = up.rows
    /\ UNCHANGED <<content, diskVars, now, orchVars,
                   last_spotify_call, clock, workers, cols, exit_code, hidden>>

\* the table is empty or holds the row of an earlier load of the file, and
\* the final document of the file has been read
InitRow ==
    /\ content = [t \in Tracks |-> 1]
    /\ DiskIs(1, Absent, Absent, Absent)
    /\ now = 1
    /\ audio_files = [i \in 1..NumTracks |-> i]
    /\ args = NoFlags
    /\ pc = "start"
    /\ idx = 1
    /\ tr = TrackResult
    /\ stats = Stats
    /\ spotify_call_count = 0
    /\ ran = <<>>
    /\ raised = "none"
    /\ written = {}
    /\ prev = NoPrev
    /\ last_spotify_call = 0
    /\ clock = StartTime
    /\ workers = [w \in Workers |-> Idle]
    /\ exit_code = NoExit
    /\ hidden = {}
    /\ cols \in RowTables
    /\ db \in {{}} \cup {{r} : r \in EarlierRows(cols)}
    /\ \E obj \in FinalObjs :
         status = [prog |-> "input", t |-> 1, obj |-> obj, data |-> <<>>,
                   rows |-> {}, res |-> "none"]

NextRow ==
    \/ LoadRow

SpecRow == InitRow /\ [][NextRow]_vars

\* the loader found a value for column c of the row
Resolved(c) == c \in DOMAIN status.data /\ status.data[c] # NULL

\* C31: an upsert on an existing key updates the resolved columns only, sets
\* updated_at, and leaves added_at, the key and every column that was not
\* resolved as they were; with no such row it inserts exactly one row with
\* added_at and updated_at set.
C31_UpsertFrame ==
    status.prog = "load" =>
        LET found == {r \in status.rows :
                         r["file_hash"] = status.data["file_hash"]} IN
        IF found = {}
        THEN \E new \in db :
                /\ new \notin status.rows
                /\ db = status.rows \cup {new}
                /\ new["added_at"] = now
                /\ new["updated_at"] = now
        ELSE \A old \in found :
                \E new \in db :
                   /\ db = (status.rows \ {old}) \cup {new}
                   /\ new["updated_at"] = now
                   /\ new["added_at"] = old["added_at"]
                   /\ new["file_hash"] = old["file_hash"]
                   /\ \A c \in cols :
                        (c # "updated_at" /\ c # "added_at" /\ c # "file_hash")
                        => IF Resolved(c) THEN new[c] = status.data[c]
                           ELSE new[c] = old[c]

\* the value the document holds for column c: along the priority chain of
\* the column, in the fields the stages write
evidence(obj, c) ==
    CASE c = "file_hash"    -> obj.file.hash_sha256
      [] c = "title"        -> Or(obj.local_tags.title, obj.spotify.name)
      [] c = "artist"       -> Or(obj.local_tags.artist, obj.spotify.artists)
      [] c = "album_artist" ->
            Or(obj.local_tags.album_artist,
               Or(obj.local_tags.artist, obj.spotify.artists))
      [] c = "bpm"          -> obj.features.tempo
      [] c = "lead_instrument" ->
            Or(obj.instruments.lead_instrument, obj.instruments.lead)
      [] OTHER -> NULL

\* C36: a column of the table for which the document holds a value gets that
\* value in the row the loader builds.
C36_ResolvableIsWritten ==
    status.prog = "load" =>
        \A c \in cols :
            evidence(status.obj, c) # NULL =>
               /\ c \in DOMAIN status.data
               /\ status.data[c] = evidence(status.obj, c)

\* C37: a column of the table for which the document holds no value is left
\* unset in the row the loader builds (the file's and the sidecar's place
\* and the two timestamps aside).
C37_NoEvidenceIsUnset ==
    status.prog = "load" =>
        \A c \in cols \ PlaceAndTime :
            evidence(status.obj, c) = NULL => ~Resolved(c)
====
